---- MODULE Spec2Model ----
(***************************************************************************)
(* A model of the text-extraction and result-normalization core of the     *)
(* arxiv-sota-agent repository:                                            *)
(*   - SOTAEntry.normalize_metric       (model/schema.py, core.py,         *)
(*                                       generator.py)                     *)
(*   - ArxivPaper._remove_latex_comments and ArxivPaper.parse (paper.py)   *)
(*   - _resolve_latex_inputs            (utils/fetcher.py)                 *)
(* Text is a string; a character is a string of length one, and the        *)
(* regular expressions of the source are matched character by character.   *)
(***************************************************************************)
EXTENDS Integers, Sequences, FiniteSets, TLC

VARIABLES
    raw,            \* normalize_metric: the raw value v handed to the validator
    metric_value,   \* normalize_metric: the value the validator returned
    metric_pc,      \* normalize_metric: "input" before the call, "done" after
    comment_text,   \* _remove_latex_comments: the text handed in
    comment_out,    \* _remove_latex_comments: the text returned
    comment_pc,     \* _remove_latex_comments: "input" before the call, "done" after
    files,          \* _resolve_latex_inputs: the source directory, path -> entry
    res_stack,      \* _resolve_latex_inputs: the calls in progress, outermost first
    resolved_text,  \* _resolve_latex_inputs: what the outermost call returned
    res_pc,         \* _resolve_latex_inputs: "running" during the call, "done" after
    latex_text,     \* ArxivPaper.parse: the text handed in
    sections,       \* ArxivPaper.sections
    parse_pc,       \* ArxivPaper.parse: "input" before the call, "done" after
    paper,          \* a parsed ArxivPaper: arxiv_id, source_path, metadata, sections, parsed_date
    json_file,      \* the file save_to_json writes and from_json reads
    call,           \* the last call of a method of paper: its name, arguments and result
    candidates,     \* download_arxiv_papers: the candidates handed in, each an id (NoId if none)
    max_download_calls, \* download_arxiv_papers: config['max_download_calls']
    save_parsed,    \* download_arxiv_papers: config['save_parsed_papers']
    parsed_dir,     \* whether the directory paths['PARSED_PAPERS'] exists
    failed_file,    \* the file failed_pdf_downloads.json
    checkpoints,    \* id -> state of the file <id>.json: "absent", "good", "unreadable"
    failed_downloads, \* download_arxiv_papers: the set failed_downloads
    pdf_papers,     \* download_arxiv_papers: the list pdf_papers
    dl_index,       \* download_arxiv_papers: index of the candidate the loop is at
    dl_pc,          \* download_arxiv_papers: "start", "loop", "done" (returned), "raised"
    handled,        \* history: for each candidate the loop took, what was done with it
    failed_at_start, \* history: the identifiers of failed_file when the run started
    keep_pdf,       \* download_arxiv_papers: config['save_files']
    parsed_files,   \* id -> the file <id>.json when its state is "good": its 'pdf_path'
    paper_paths,    \* for each paper of pdf_papers: its pdf_path and _temp_pdf_path
    data_exists,    \* scan_arxiv_metadata: whether the file paths['DATA'] exists
    stream,         \* scan_arxiv_metadata: the records stream_arxiv_data yields
    max_metadata_scan_limit, \* scan_arxiv_metadata: config["max_metadata_scan_limit"]
    scan_candidates, \* scan_arxiv_metadata: the list candidates
    scanned_count,  \* scan_arxiv_metadata: scanned_count
    scan_pos,       \* scan_arxiv_metadata: index of the record the loop takes next
    scan_pc,        \* scan_arxiv_metadata: "loop", "returned", "exit0", "exit1"
    examined,       \* history: the records handed to filter_arxiv_metadata
    parsed_papers,  \* filter_papers: the papers handed in
    content_keywords, \* filter_papers: config['content_keywords']
    preview_filtered_papers, \* filter_papers: config['preview_filtered_papers']
    filtered_papers, \* filter_papers: the list returned
    preview_file,   \* the file filtered_papers_preview.json
    filter_pc,      \* filter_papers: "input", "returned", "exit0"
    schema_variant, \* SOTAEntry: the module of the class: "core", "generator", "schema"
    response,       \* SOTAEntry: the metric_value of the response, or that it has none
    entry,          \* SOTAEntry: the outcome of the construction
    entry_pc,       \* SOTAEntry: "input" before the construction, "done" after
    llm_papers,     \* analyze_papers: the papers handed in, each its position
    max_llm_calls,  \* analyze_papers: config['max_llm_calls']
    client_ok,      \* analyze_papers: whether GeminiAgentClient(...) returns a client
    results,        \* analyze_papers: the list results
    leaderboard,    \* the rows of leaderboard.csv, none before it is written
    an_index,       \* analyze_papers: index of the paper the loop is at
    an_pc,          \* analyze_papers: "start", "loop", "returned", "exit1"
    run             \* the number of the batch run against the storage, from 1

varsMetric == <<raw, metric_value, metric_pc>>
varsComment == <<comment_text, comment_out, comment_pc>>
varsResolve == <<files, res_stack, resolved_text, res_pc>>
varsParse == <<latex_text, sections, parse_pc>>
varsPaper == <<paper, json_file, call>>
varsDownload ==
    <<candidates, max_download_calls, save_parsed, parsed_dir, failed_file, checkpoints,
      failed_downloads, pdf_papers, dl_index, dl_pc, handled, failed_at_start, keep_pdf,
      parsed_files, paper_paths>>
varsScan ==
    <<data_exists, stream, max_metadata_scan_limit, scan_candidates, scanned_count, scan_pos,
      scan_pc, examined>>
varsFilter ==
    <<parsed_papers, content_keywords, preview_filtered_papers, filtered_papers,
      preview_file, filter_pc>>
varsEntry ==
    <<schema_variant, response, entry, entry_pc>>
varsAnalyze ==
    <<llm_papers, max_llm_calls, client_ok, results, leaderboard, an_index, an_pc>>
varsRerun ==
    <<run>>
vars ==
    <<varsMetric, varsComment, varsResolve, varsParse, varsPaper, varsDownload, varsScan,
      varsFilter, varsEntry, varsAnalyze, varsRerun>>

\* what an action of one component leaves alone
exceptMetric ==
    <<varsComment, varsResolve, varsParse, varsPaper, varsDownload, varsScan, varsFilter,
      varsEntry, varsAnalyze, varsRerun>>
exceptComment ==
    <<varsMetric, varsResolve, varsParse, varsPaper, varsDownload, varsScan, varsFilter,
      varsEntry, varsAnalyze, varsRerun>>
exceptResolve ==
    <<varsMetric, varsComment, varsParse, varsPaper, varsDownload, varsScan, varsFilter,
      varsEntry, varsAnalyze, varsRerun>>
exceptParse ==
    <<varsMetric, varsComment, varsResolve, varsPaper, varsDownload, varsScan, varsFilter,
      varsEntry, varsAnalyze, varsRerun>>
exceptPaper ==
    <<varsMetric, varsComment, varsResolve, varsParse, varsDownload, varsScan, varsFilter,
      varsEntry, varsAnalyze, varsRerun>>
exceptDownload ==
    <<varsMetric, varsComment, varsResolve, varsParse, varsPaper, varsScan, varsFilter,
      varsEntry, varsAnalyze, varsRerun>>
exceptScan ==
    <<varsMetric, varsComment, varsResolve, varsParse, varsPaper, varsDownload, varsFilter,
      varsEntry, varsAnalyze, varsRerun>>
exceptFilter ==
    <<varsMetric, varsComment, varsResolve, varsParse, varsPaper, varsDownload, varsScan,
      varsEntry, varsAnalyze, varsRerun>>
exceptEntry ==
    <<varsMetric, varsComment, varsResolve, varsParse, varsPaper, varsDownload, varsScan,
      varsFilter, varsAnalyze, varsRerun>>
exceptAnalyze ==
    <<varsMetric, varsComment, varsResolve, varsParse, varsPaper, varsDownload, varsScan,
      varsFilter, varsEntry, varsRerun>>
exceptRerun ==
    <<varsMetric, varsComment, varsResolve, varsParse, varsPaper, varsDownload, varsScan,
      varsFilter, varsEntry, varsAnalyze>>

(***************************************************************************)
(* Bounds of the model.                                                    *)
(***************************************************************************)
MaxMetricLen == 4       \* longest raw metric string
MaxMetricNum == 150     \* largest magnitude of a raw metric number's numerator
MaxCommentLen == 5      \* longest text handed to the comment stripper
MaxMainLen == 2         \* most tokens (text chunks, \input commands) of the main file
MaxDepth == 5           \* most nested _resolve_latex_inputs calls the model follows
MaxHeadings == 2        \* most headings of a document
MaxSections == 2        \* most sections of a parsed paper
MaxCandidates == 3      \* most candidates handed to download_arxiv_papers
MaxId == 2              \* identifiers are 1..MaxId, in the order of their strings
MaxRecords == 3         \* most records of the metadata stream
MaxScanLimit == 4       \* largest max_metadata_scan_limit
MaxPapers == 3          \* most papers handed to filter_papers
MaxResponseLen == 2     \* longest metric_value string of a response
MaxAnalyzed == 3        \* most papers handed to analyze_papers
MaxRuns == 2            \* most batch runs against the same storage

(***************************************************************************)
(* Characters and strings.                                                 *)
(***************************************************************************)
Digits == {"0", "1", "2", "3", "4", "5", "6", "7", "8", "9"}

\* str.isspace for the characters text can hold here
Whitespace == {" ", "\n", "\t"}

DigitValue(c) ==
    CASE c = "0" -> 0 [] c = "1" -> 1 [] c = "2" -> 2 [] c = "3" -> 3
      [] c = "4" -> 4 [] c = "5" -> 5 [] c = "6" -> 6 [] c = "7" -> 7
      [] c = "8" -> 8 [] c = "9" -> 9

\* all sequences over S of length 0..n
SeqsUpTo(S, n) == UNION {[1..k -> S] : k \in 0..n}

\* all strings over the characters chars of length exactly n, and of length 0..n
RECURSIVE StringsOfLen(_, _)
StringsOfLen(chars, n) ==
    IF n = 0 THEN {""}
    ELSE {s \o c : s \in StringsOfLen(chars, n - 1), c \in chars}

StringsUpTo(chars, n) == UNION {StringsOfLen(chars, k) : k \in 0..n}

\* the character s[i]
At(s, i) == SubSeq(s, i, i)

\* s[a..b], empty when a > b
Slice(s, a, b) == IF a > b THEN "" ELSE SubSeq(s, a, b)

\* the least and the greatest index of the set S, 0 if S is empty
FirstIndex(S) == IF S = {} THEN 0 ELSE CHOOSE k \in S : \A m \in S : k <= m

LastIndex(S) == IF S = {} THEN 0 ELSE CHOOSE k \in S : \A m \in S : m <= k

\* index of the first character of s at or after i that is not whitespace, Len(s)+1 if none
SkipSpace(s, i) ==
    LET k == FirstIndex({j \in i..Len(s) : At(s, j) \notin Whitespace})
    IN  IF k # 0 THEN k ELSE IF i > Len(s) THEN i ELSE Len(s) + 1

\* index of the last character of s at or before i that is not whitespace, 0 if none
SkipSpaceBack(s, i) == LastIndex({j \in 1..i : At(s, j) \notin Whitespace})

\* str.strip()
Strip(s) == Slice(s, SkipSpace(s, 1), SkipSpaceBack(s, Len(s)))

\* index of the first c in s at or after i, 0 if none: str.find(c, i-1) + 1
FindChar(s, c, i) == FirstIndex({j \in i..Len(s) : At(s, j) = c})

\* str.replace(c, "")
RECURSIVE RemoveChar(_, _)
RemoveChar(s, c) ==
    LET p == FindChar(s, c, 1)
    IN  IF p = 0 THEN s
        ELSE Slice(s, 1, p - 1) \o RemoveChar(Slice(s, p + 1, Len(s)), c)

\* str.replace(c, "", 1)
RemoveFirst(s, c) ==
    LET p == FindChar(s, c, 1)
    IN  IF p = 0 THEN s ELSE Slice(s, 1, p - 1) \o Slice(s, p + 1, Len(s))

\* str.isdigit()
IsDigit(s) == Len(s) > 0 /\ \A i \in 1..Len(s) : At(s, i) \in Digits

RECURSIVE Pow10(_)
Pow10(k) == IF k = 0 THEN 1 ELSE 10 * Pow10(k - 1)

\* the integer written by a string of digits ("" is 0)
RECURSIVE DigitsValue(_)
DigitsValue(s) ==
    IF Len(s) = 0 THEN 0
    ELSE 10 * DigitsValue(Slice(s, 1, Len(s) - 1)) + DigitValue(At(s, Len(s)))

(***************************************************************************)
(* Numbers are exact fractions n/d with d > 0 a power of ten.              *)
(***************************************************************************)
Frac(n, d) == [n |-> n, d |-> d]

FracEq(a, b) == a.n * b.d = b.n * a.d
FracLess(a, b) == a.n * b.d < b.n * a.d

\* float(v) of a string v that passed the isdigit test: digits with at most one '.'
ParseFloat(s) ==
    LET p == FindChar(s, ".", 1)
    IN  IF p = 0 THEN Frac(DigitsValue(s), 1)
        ELSE Frac(DigitsValue(RemoveFirst(s, ".")), Pow10(Len(s) - p))

(***************************************************************************)
(* SOTAEntry.normalize_metric                                              *)
(***************************************************************************)
\* the "not reported" value -1.0
Sentinel == Frac(-1, 1)

RawNone == [kind |-> "none", s |-> "", n |-> 0, d |-> 1]
RawStr(s) == [kind |-> "str", s |-> s, n |-> 0, d |-> 1]
RawNum(n, d) == [kind |-> "num", s |-> "", n |-> n, d |-> d]

\* the tail of the validator: val = float(v); negative -> -1.0; > 1 -> val / 100
ScaleMetricShifted(val) ==
    IF val.n < 0 THEN Sentinel
    ELSE IF val.n >= val.d THEN Frac(val.n, val.d * 100)
    ELSE val

ScaleMetric(val) ==
    IF val.n < 0 THEN Sentinel
    ELSE IF val.n > val.d THEN Frac(val.n, val.d * 100)
    ELSE val

normalize_metric(v) ==
    IF v.kind = "none" THEN Sentinel
    ELSE IF v.kind = "str"
    THEN LET t == Strip(RemoveChar(v.s, "%"))
         IN  IF ~IsDigit(RemoveFirst(t, ".")) THEN Sentinel
             ELSE ScaleMetric(ParseFloat(t))
    ELSE ScaleMetric(Frac(v.n, v.d))

MetricChars == {"0", "1", "5", ".", "%", "-", " ", "x"}

RawValues ==
    {RawNone}
        \cup {RawStr(s) : s \in StringsUpTo(MetricChars, MaxMetricLen)}
        \cup {RawNum(n, d) : n \in (0 - MaxMetricNum)..MaxMetricNum, d \in {1, 100}}

StartMetric ==
    /\ raw \in RawValues
    /\ metric_value = Sentinel
    /\ metric_pc = "input"

IdleMetric ==
    /\ raw = RawNone
    /\ metric_value = Sentinel
    /\ metric_pc = "idle"

Validate ==
    /\ metric_pc = "input"
    /\ metric_value' = normalize_metric(raw)
    /\ metric_pc' = "done"
    /\ UNCHANGED raw
    /\ UNCHANGED exceptMetric

(***************************************************************************)
(* Claims about normalize_metric                                           *)
(***************************************************************************)
InUnitInterval(f) == 0 <= f.n /\ f.n <= f.d

\* C1: for every raw input the normalized metric_value is the sentinel -1.0
\* or a fraction in [0,1].
C1_MetricInUnitInterval ==
    metric_pc = "done" => (metric_value = Sentinel \/ InUnitInterval(metric_value))

\* a non-negative decimal numeral: digits with at most one '.', at least one digit
IsNumeral(s) ==
    /\ \A i \in 1..Len(s) : At(s, i) \in Digits \cup {"."}
    /\ Cardinality({i \in 1..Len(s) : At(s, i) = "."}) <= 1
    /\ \E i \in 1..Len(s) : At(s, i) \in Digits

\* the number the raw value stands for, when it stands for one
RawIsNumber ==
    \/ raw.kind = "num"
    \/ raw.kind = "str" /\ IsNumeral(Strip(RemoveChar(raw.s, "%")))

RawNumber ==
    IF raw.kind = "num" THEN Frac(raw.n, raw.d)
    ELSE ParseFloat(Strip(RemoveChar(raw.s, "%")))

\* C2: None, a string that is no non-negative numeral once '%' and the
\* surrounding whitespace are removed, and a negative number give -1.0; a
\* value v > 1 gives v/100; a value 0 <= v <= 1 is kept.
C2_MetricMapping ==
    metric_pc = "done" =>
        /\ raw.kind = "none" => metric_value = Sentinel
        /\ ~RawIsNumber /\ raw.kind = "str" => metric_value = Sentinel
        /\ RawIsNumber /\ RawNumber.n < 0 => metric_value = Sentinel
        /\ RawIsNumber /\ FracLess(Frac(1, 1), RawNumber) =>
              /\ metric_value # Sentinel
              /\ FracEq(metric_value, Frac(RawNumber.n, RawNumber.d * 100))
        /\ RawIsNumber /\ RawNumber.n >= 0 /\ ~FracLess(Frac(1, 1), RawNumber) =>
              /\ metric_value # Sentinel
              /\ FracEq(metric_value, RawNumber)

\* "15.5%"-like input was normalized: a percent string above 1 became a fraction
C2_Witness ==
    /\ metric_pc = "done"
    /\ raw.kind = "str"
    /\ \E i \in 1..Len(raw.s) : At(raw.s, i) = "%"
    /\ RawIsNumber
    /\ FracLess(Frac(1, 1), RawNumber)
    /\ FracEq(metric_value, Frac(RawNumber.n, RawNumber.d * 100))

\* C16: a raw string with a '%' that is not its last character once the
\* surrounding whitespace is gone, or with more than one '%', is taken as
\* not reported and yields the sentinel
C16_OnlyTrailingPercent ==
    (/\ metric_pc = "done"
     /\ raw.kind = "str"
     /\ LET t == Strip(raw.s)
            percents == {i \in 1..Len(t) : At(t, i) = "%"}
        IN  Cardinality(percents) > 1
                \/ (Cardinality(percents) = 1 /\ Len(t) \notin percents))
    => FracEq(metric_value, Frac(-1, 1))

(***************************************************************************)
(* ArxivPaper._remove_latex_comments                                       *)
(***************************************************************************)
\* str.split(c): the pieces of s between the occurrences of c
SplitOn(s, c) ==
    LET at == {j \in 1..Len(s) : At(s, j) = c}
        cut == [k \in 0..(Cardinality(at) + 1) |->
                   IF k = 0 THEN 0
                   ELSE IF k > Cardinality(at) THEN Len(s) + 1
                   ELSE CHOOSE j \in at : Cardinality({q \in at : q < j}) = k - 1]
    IN  [k \in 1..(Cardinality(at) + 1) |-> Slice(s, cut[k - 1] + 1, cut[k] - 1)]

\* c.join(pieces)
RECURSIVE JoinWith(_, _)
JoinWith(pieces, c) ==
    IF Len(pieces) = 0 THEN ""
    ELSE IF Len(pieces) = 1 THEN pieces[1]
    ELSE LET half == Len(pieces) \div 2
         IN  JoinWith(SubSeq(pieces, 1, half), c) \o c
                 \o JoinWith(SubSeq(pieces, half + 1, Len(pieces)), c)

\* a mutant of the loop body: only the '%' itself is taken out of the line
StripCommentLineDropPercent(line) ==
    LET comment_pos == FindChar(line, "%", 1)
    IN  IF comment_pos >= 1 /\ (comment_pos = 1 \/ At(line, comment_pos - 1) # "\\")
        THEN Slice(line, 1, comment_pos - 1) \o Slice(line, comment_pos + 1, Len(line))
        ELSE line

\* the body of the loop: the line cut at line.find('%') unless that '%' follows a backslash
StripCommentLine(line) ==
    LET comment_pos == FindChar(line, "%", 1)
    IN  IF comment_pos >= 1 /\ (comment_pos = 1 \/ At(line, comment_pos - 1) # "\\")
        THEN Slice(line, 1, comment_pos - 1)
        ELSE line

remove_latex_comments(text) ==
    LET lines == SplitOn(text, "\n")
    IN  JoinWith([i \in 1..Len(lines) |-> StripCommentLine(lines[i])], "\n")

CommentChars == {"a", "%", "\\", "\n"}

StartComment ==
    /\ comment_text \in StringsUpTo(CommentChars, MaxCommentLen)
    /\ comment_out = ""
    /\ comment_pc = "input"

IdleComment ==
    /\ comment_text = ""
    /\ comment_out = ""
    /\ comment_pc = "idle"

RemoveComments ==
    /\ comment_pc = "input"
    /\ comment_out' = remove_latex_comments(comment_text)
    /\ comment_pc' = "done"
    /\ UNCHANGED comment_text
    /\ UNCHANGED exceptComment


(***************************************************************************)
(* _resolve_latex_inputs                                                   *)
(* A text is a sequence of tokens: chunks of text without \input, and      *)
(* \input{...} commands, the matches of input_pattern.  A path is a        *)
(* directory (a sequence of names), a stem and the number of ".tex"        *)
(* suffixes that follow the stem.                                          *)
(***************************************************************************)
Path(dir, stem, ext) == [dir |-> dir, stem |-> stem, ext |-> ext]

\* a chunk of text that holds no \input command
Chunk(id) == [kind |-> "text", id |-> id, dir |-> <<>>, stem |-> "", ext |-> 0, pad |-> FALSE]

\* \input{<dir>/<stem><.tex * ext>}, with blanks around the name when pad
Input(dir, stem, ext, pad) ==
    [kind |-> "input", id |-> "", dir |-> dir, stem |-> stem, ext |-> ext, pad |-> pad]

\* an entry of the directory: absent, or present with the text read_text gives,
\* or present and unreadable (a directory, a file read_text cannot open)
Absent == [exists |-> FALSE, readable |-> FALSE, text |-> <<>>]
Unreadable == [exists |-> TRUE, readable |-> FALSE, text |-> <<>>]
File(text) == [exists |-> TRUE, readable |-> TRUE, text |-> text]

\* extract_text_from_latex passes tex_file.parent: the main file lies at the top
base_dir == <<>>

\* filename = match.group(1).strip(): the name without the blanks around it
filename(cmd) == Path(cmd.dir, cmd.stem, cmd.ext)

\* base_dir / filename
JoinPath(dir, name) == Path(dir \o name.dir, name.stem, name.ext)

\* f"{filename}.tex"
WithTex(name) == Path(name.dir, name.stem, name.ext + 1)

\* filename.endswith('.tex')
EndsWithTex(name) == name.ext >= 1

\* Path.exists()
Exists(p) == p \in DOMAIN files /\ files[p].exists

\* a mutant of tex_path: the name as given is tried before name.tex
tex_path_as_given_first(cmd) ==
    LET name == filename(cmd)
        first == JoinPath(base_dir, name)
    IN  IF Exists(first) \/ EndsWithTex(name) THEN first
        ELSE JoinPath(base_dir, WithTex(name))

\* the path replace_input settles on (lines 271-279); the caller tests exists()
tex_path(cmd) ==
    LET name == filename(cmd)
        first == IF ~EndsWithTex(name) THEN JoinPath(base_dir, WithTex(name))
                 ELSE JoinPath(base_dir, name)
    IN  IF ~Exists(first) THEN JoinPath(base_dir, name) ELSE first

\* a mutant of the not-found branch: the command is dropped from the output
unresolved_dropped(cmd) == <<>>

\* return match.group(0): the command as it stands in the text
unresolved(cmd) == <<cmd>>

Frame(path, text) == [path |-> path, text |-> text, pos |-> 1, out |-> <<>>]

MainPath == Path(<<>>, "main", 1)

Top == res_stack[Len(res_stack)]

AtToken == res_pc = "running" /\ Top.pos <= Len(Top.text)

Token == Top.text[Top.pos]

\* the innermost call goes on to its next token with `piece` added to its output
Emit(piece) ==
    res_stack' = [res_stack EXCEPT ![Len(res_stack)] =
                    [@ EXCEPT !.out = @ \o piece, !.pos = @ + 1]]

\* re.sub copies the text between the matches
CopyText ==
    /\ AtToken
    /\ Token.kind = "text"
    /\ Emit(<<Token>>)
    /\ UNCHANGED <<files, resolved_text, res_pc>>
    /\ UNCHANGED exceptResolve

\* lines 281-284: neither path exists, the command stays
InputNotFound ==
    /\ AtToken
    /\ Token.kind = "input"
    /\ ~Exists(tex_path(Token))
    /\ Emit(unresolved(Token))
    /\ UNCHANGED <<files, resolved_text, res_pc>>
    /\ UNCHANGED exceptResolve

\* lines 302-304: read_text raises, the command stays
InputUnreadable ==
    /\ AtToken
    /\ Token.kind = "input"
    /\ Exists(tex_path(Token))
    /\ ~files[tex_path(Token)].readable
    /\ Emit(<<Token>>)
    /\ UNCHANGED <<files, resolved_text, res_pc>>
    /\ UNCHANGED exceptResolve

\* lines 290-292: the file is read and _resolve_latex_inputs is called on its text
EnterInput ==
    /\ AtToken
    /\ Token.kind = "input"
    /\ Exists(tex_path(Token))
    /\ files[tex_path(Token)].readable
    /\ Len(res_stack) < MaxDepth
    /\ res_stack' = Append(res_stack, Frame(tex_path(Token), files[tex_path(Token)].text))
    /\ UNCHANGED <<files, resolved_text, res_pc>>
    /\ UNCHANGED exceptResolve

\* line 293: the inner call returns and its text replaces the command
ReturnInput ==
    /\ res_pc = "running"
    /\ Top.pos > Len(Top.text)
    /\ Len(res_stack) > 1
    /\ res_stack' = [SubSeq(res_stack, 1, Len(res_stack) - 1)
                        EXCEPT ![Len(res_stack) - 1] =
                            [@ EXCEPT !.out = @ \o Top.out, !.pos = @ + 1]]
    /\ UNCHANGED <<files, resolved_text, res_pc>>
    /\ UNCHANGED exceptResolve

\* line 309: the outermost call returns resolved_text
FinishResolve ==
    /\ res_pc = "running"
    /\ Top.pos > Len(Top.text)
    /\ Len(res_stack) = 1
    /\ resolved_text' = Top.out
    /\ res_pc' = "done"
    /\ UNCHANGED <<files, res_stack>>
    /\ UNCHANGED exceptResolve

(***************************************************************************)
(* The directories the model draws from: a, a.tex, b.tex at the top and    *)
(* b.tex, c.tex in sub/.  Every file starts with a chunk that names it.    *)
(***************************************************************************)
PathA == Path(<<>>, "a", 0)
PathATex == Path(<<>>, "a", 1)
PathBTex == Path(<<>>, "b", 1)
PathSubBTex == Path(<<"sub">>, "b", 1)
PathSubCTex == Path(<<"sub">>, "c", 1)

InputA == Input(<<>>, "a", 0, FALSE)
InputB == Input(<<>>, "b", 0, FALSE)
InputSubC == Input(<<"sub">>, "c", 0, FALSE)

Directories ==
    { (PathA :> ea) @@ (PathATex :> eat) @@ (PathBTex :> eb)
        @@ (PathSubBTex :> esb) @@ (PathSubCTex :> esc) :
        ea \in {Absent, File(<<Chunk("a")>>)},
        eat \in {Absent, File(<<Chunk("a.tex")>>)}
                  \cup {File(<<Chunk("a.tex"), c>>) : c \in {InputA, InputB, InputSubC}},
        eb \in {Absent, Unreadable, File(<<Chunk("b.tex")>>),
                File(<<Chunk("b.tex"), InputA>>)},
        esb \in {Absent, File(<<Chunk("sub/b.tex")>>)},
        esc \in {Absent, File(<<Chunk("sub/c.tex")>>),
                 File(<<Chunk("sub/c.tex"), InputB>>)} }

MainTokens ==
    {Chunk("main"), InputA, Input(<<>>, "a", 0, TRUE), Input(<<>>, "a", 1, FALSE),
     InputB, InputSubC, Input(<<>>, "z", 0, FALSE)}

StartResolve ==
    /\ files \in Directories
    /\ \E text \in SeqsUpTo(MainTokens, MaxMainLen) :
           res_stack = <<Frame(MainPath, text)>>
    /\ resolved_text = <<>>
    /\ res_pc = "running"

IdleResolve ==
    /\ files = << >>
    /\ res_stack = <<>>
    /\ resolved_text = <<>>
    /\ res_pc = "idle"

(***************************************************************************)
(* Regular expressions of paper.py, matched as re does: leftmost match,    *)
(* greedy or lazy repetition as written, matches do not overlap.           *)
(***************************************************************************)
LowerLetters ==
    {"a", "b", "c", "d", "e", "f", "g", "h", "i", "j", "k", "l", "m",
     "n", "o", "p", "q", "r", "s", "t", "u", "v", "w", "x", "y", "z"}

UpperLetters ==
    {"A", "B", "C", "D", "E", "F", "G", "H", "I", "J", "K", "L", "M",
     "N", "O", "P", "Q", "R", "S", "T", "U", "V", "W", "X", "Y", "Z"}

\* [a-zA-Z]
Letters == LowerLetters \cup UpperLetters

\* str.lower() of one character
LowerOf(c) ==
    CASE c = "A" -> "a" [] c = "B" -> "b" [] c = "C" -> "c" [] c = "D" -> "d"
      [] c = "E" -> "e" [] c = "F" -> "f" [] c = "G" -> "g" [] c = "H" -> "h"
      [] c = "I" -> "i" [] c = "J" -> "j" [] c = "K" -> "k" [] c = "L" -> "l"
      [] c = "M" -> "m" [] c = "N" -> "n" [] c = "O" -> "o" [] c = "P" -> "p"
      [] c = "Q" -> "q" [] c = "R" -> "r" [] c = "S" -> "s" [] c = "T" -> "t"
      [] c = "U" -> "u" [] c = "V" -> "v" [] c = "W" -> "w" [] c = "X" -> "x"
      [] c = "Y" -> "y" [] c = "Z" -> "z" [] OTHER -> c

\* str.lower(), and what re.IGNORECASE compares
RECURSIVE ToLower(_)
ToLower(s) ==
    IF Len(s) = 0 THEN ""
    ELSE IF Len(s) = 1 THEN LowerOf(s)
    ELSE ToLower(Slice(s, 1, Len(s) \div 2))
             \o ToLower(Slice(s, Len(s) \div 2 + 1, Len(s)))

\* the literal lit stands in s at index i
HasAt(s, lit, i) ==
    /\ i >= 1
    /\ i + Len(lit) - 1 <= Len(s)
    /\ SubSeq(s, i, i + Len(lit) - 1) = lit

\* index of the first occurrence of lit in s at or after i, 0 if none
Find(s, lit, i) == FirstIndex({j \in i..Len(s) : HasAt(s, lit, j)})

\* [a-zA-Z]* from i: the index after the run of letters
SkipLetters(s, i) ==
    LET k == FirstIndex({j \in i..Len(s) : At(s, j) \notin Letters})
    IN  IF k # 0 THEN k ELSE IF i > Len(s) THEN i ELSE Len(s) + 1

\* (sub)* from i: the index after the repetitions of "sub"
RECURSIVE SkipSubs(_, _)
SkipSubs(s, i) == IF HasAt(s, "sub", i) THEN SkipSubs(s, i + 3) ELSE i

\* [^}]{min,}\} from b, the index after an opening brace: the index after the
\* closing brace, 0 if there is no match
ArgEnd(s, b, min) ==
    LET j == FindChar(s, "}", b)
    IN  IF j = 0 \/ j - b < min THEN 0 ELSE j + 1

\* \\begin\{name\}.*?\\end\{name\} at i (DOTALL); with star, \*? follows each name
EnvEnd(s, i, name, star) ==
    LET open == "\\begin{" \o name
        afterStar == IF star /\ HasAt(s, "*", i + Len(open))
                     THEN i + Len(open) + 1 ELSE i + Len(open)
        close == "\\end{" \o name
        plain == Find(s, close \o "}", afterStar + 1)
        starred == IF star THEN Find(s, close \o "*}", afterStar + 1) ELSE 0
    IN  IF ~(HasAt(s, open, i) /\ HasAt(s, "}", afterStar)) THEN 0
        ELSE IF plain = 0 /\ starred = 0 THEN 0
        ELSE IF starred = 0 \/ (plain # 0 /\ plain < starred)
        THEN plain + Len(close) + 1
        ELSE starred + Len(close) + 2

\* \\name\{[^}]{min,}\} at i
NamedArgEnd(s, i, name, min) ==
    IF HasAt(s, "\\" \o name \o "{", i) THEN ArgEnd(s, i + Len(name) + 2, min) ELSE 0

\* \\[a-zA-Z]+ at i, followed by \*? when star
CommandEnd(s, i, star) ==
    LET e == SkipLetters(s, i + 1)
    IN  IF ~HasAt(s, "\\", i) \/ e = i + 1 THEN 0
        ELSE IF star /\ HasAt(s, "*", e) THEN e + 1
        ELSE e

\* \\[a-zA-Z]+\{[^}]*\} at i, with \*? before the brace when star
CommandArgEnd(s, i, star) ==
    LET e == CommandEnd(s, i, star)
    IN  IF e = 0 \/ ~HasAt(s, "{", e) THEN 0 ELSE ArgEnd(s, e + 1, 0)

\* the number of occurrences of c in s[a..b]
CountChar(s, c, a, b) == Cardinality({k \in a..b : At(s, k) = c})

\* index of the last c in s[a..b], 0 if none
FindLastChar(s, c, a, b) == LastIndex({j \in a..b : At(s, j) = c})

\* \n\s*\n\s*\n+ at i: the run of whitespace from i holds three newlines or
\* more; the greedy match ends after the last newline of the run
BlankLinesEnd(s, i) ==
    LET runEnd == SkipSpace(s, i) - 1
    IN  IF ~HasAt(s, "\n", i) \/ CountChar(s, "\n", i, runEnd) < 3 THEN 0
        ELSE FindLastChar(s, "\n", i, runEnd) + 1

\* the index after the match of pattern re at i, 0 if re does not match at i
MatchEnd(re, s, i) ==
    CASE re = "figure" -> EnvEnd(s, i, "figure", FALSE)
      [] re = "table" -> EnvEnd(s, i, "table", FALSE)
      [] re = "equation" -> EnvEnd(s, i, "equation", TRUE)
      [] re = "align" -> EnvEnd(s, i, "align", TRUE)
      [] re \in {"cite", "ref", "label"} -> NamedArgEnd(s, i, re, 1)
      [] re \in {"textbf", "textit", "emph"} -> NamedArgEnd(s, i, re, 0)
      [] re = "command_arg" -> CommandArgEnd(s, i, TRUE)
      [] re = "command" -> CommandEnd(s, i, TRUE)
      [] re = "title_arg" -> CommandArgEnd(s, i, FALSE)
      [] re = "title_command" -> CommandEnd(s, i, FALSE)
      [] re = "blank_lines" -> BlankLinesEnd(s, i)

\* what re.sub puts for the match s[i..e-1] of pattern re
Replacement(re, s, i, e) ==
    CASE re \in {"textbf", "textit", "emph"} -> Slice(s, i + Len(re) + 2, e - 2)
      [] re = "title_arg" -> Slice(s, CommandEnd(s, i, FALSE) + 1, e - 2)
      [] re = "blank_lines" -> "\n\n"
      [] OTHER -> ""

\* the character every match of re starts with
FirstChar(re) == IF re = "blank_lines" THEN "\n" ELSE "\\"

\* re.sub(re, replacement, s) from index i on
RECURSIVE ReSubFrom(_, _, _)
ReSubFrom(re, s, i) ==
    LET p == FindChar(s, FirstChar(re), i)
    IN  IF p = 0 THEN Slice(s, i, Len(s))
        ELSE LET e == MatchEnd(re, s, p)
             IN  IF e = 0 THEN Slice(s, i, p) \o ReSubFrom(re, s, p + 1)
                 ELSE Slice(s, i, p - 1) \o Replacement(re, s, p, e)
                          \o ReSubFrom(re, s, e)

ReSub(re, s) == ReSubFrom(re, s, 1)

\* re.sub for each pattern of res in turn; no pattern matches in the empty
\* string, and the test for it has s evaluated before the next substitution
RECURSIVE ReSubAll(_, _)
ReSubAll(res, s) ==
    IF Len(res) = 0 \/ s = "" THEN s ELSE ReSubAll(Tail(res), ReSub(Head(res), s))

\* ' '.join(s.split())
\* what stands for s[k] between two words: the first character of a run of
\* whitespace becomes the one space, the others of the run go
NormalizedChar(s, k) ==
    IF At(s, k) \notin Whitespace THEN At(s, k)
    ELSE IF At(s, k - 1) \notin Whitespace THEN " " ELSE ""

RECURSIVE NormalizeRange(_, _, _)
NormalizeRange(s, a, b) ==
    IF a > b THEN ""
    ELSE IF a = b THEN NormalizedChar(s, a)
    ELSE NormalizeRange(s, a, (a + b) \div 2) \o NormalizeRange(s, (a + b) \div 2 + 1, b)

\* the words are those from the first to the last character that is no
\* whitespace
NormalizeSpace(s) == NormalizeRange(s, SkipSpace(s, 1), SkipSpaceBack(s, Len(s)))

\* str.rstrip(chars)
RECURSIVE RStrip(_, _)
RStrip(s, chars) ==
    IF Len(s) > 0 /\ At(s, Len(s)) \in chars
    THEN RStrip(Slice(s, 1, Len(s) - 1), chars)
    ELSE s

\* re.split(r'[.!?]+', s), without the empty pieces between adjacent delimiters
RECURSIVE SplitSentences(_, _)
SplitSentences(s, i) ==
    IF i > Len(s) THEN <<>>
    ELSE IF At(s, i) \in {".", "!", "?"} THEN SplitSentences(s, i + 1)
    ELSE LET k == FirstIndex({j \in i..Len(s) : At(s, j) \in {".", "!", "?"}})
             d == IF k = 0 THEN Len(s) + 1 ELSE k
         IN  <<Slice(s, i, d - 1)>> \o SplitSentences(s, d)

(***************************************************************************)
(* ArxivPaper.parse                                                        *)
(***************************************************************************)
MinTitleLen == 2
MinContentLen == 50
MinSentenceLen == 20

\* the patterns _clean_latex_content substitutes, in its order
ContentPatterns ==
    <<"figure", "table", "equation", "align", "cite", "ref", "label",
      "textbf", "textit", "emph", "command_arg", "command", "blank_lines">>

\* (the result of each step is evaluated before the next step takes it)
clean_latex_content(content) ==
    LET substituted == ReSubAll(ContentPatterns, content)
        normalized == NormalizeSpace(substituted)
    IN  IF substituted = "" \/ normalized = "" THEN "" ELSE Strip(normalized)

clean_latex_title(title) ==
    LET substituted == ReSubAll(<<"title_arg", "title_command">>, title)
        normalized == NormalizeSpace(substituted)
    IN  IF substituted = "" \/ normalized = "" THEN ""
        ELSE Strip(RStrip(normalized, {".", ":", ";", ","}))

\* ^appendix\s*[a-z]$ on the lower-cased title
IsAppendixLetter(low) ==
    /\ HasAt(low, "appendix", 1)
    /\ SkipSpace(low, 9) = Len(low)
    /\ At(low, Len(low)) \in LowerLetters

is_valid_section_title(title) ==
    LET title_lower == ToLower(title)
    IN  /\ Len(title) >= MinTitleLen
        /\ ~HasAt(title_lower, "fig", 1)
        /\ ~HasAt(title_lower, "figure", 1)
        /\ ~HasAt(title_lower, "table", 1)
        /\ ~IsAppendixLetter(title_lower)
        /\ ~(Len(title_lower) = 1 /\ title_lower \in LowerLetters)

\* a mutant of _is_valid_section: a sentence counts by its characters that
\* are no whitespace
is_valid_section_nonspace(content) ==
    LET sentences == SplitSentences(content, 1)
    IN  /\ Len(content) >= MinContentLen
        /\ \E k \in 1..Len(sentences) :
              Len(sentences[k]) - CountChar(sentences[k], " ", 1, Len(sentences[k]))
                  > MinSentenceLen

is_valid_section(content) ==
    LET sentences == SplitSentences(content, 1)
    IN  /\ Len(content) >= MinContentLen
        /\ \E k \in 1..Len(sentences) : Len(Strip(sentences[k])) > MinSentenceLen

\* \\(sub)*section\*?\{([^}]+)\} at i: where group 2 starts, 0 if no match
SectionTitleStart(s, i) ==
    LET a == SkipSubs(s, i + 1)
        b == IF HasAt(s, "*", a + 7) THEN a + 8 ELSE a + 7
    IN  IF HasAt(s, "\\", i) /\ HasAt(s, "section", a) /\ HasAt(s, "{", b)
           /\ ArgEnd(s, b + 1, 1) # 0
        THEN b + 1 ELSE 0

\* list(re.finditer(section_pattern, s)) from index i on: for each match its
\* start, its end (the index after it) and group 2
RECURSIVE SectionMatches(_, _)
SectionMatches(s, i) ==
    LET p == FindChar(s, "\\", i)
        t == SectionTitleStart(s, p)
        e == ArgEnd(s, t, 1)
    IN  IF s = "" \/ p = 0 THEN <<>>
        ELSE IF t = 0 THEN SectionMatches(s, p + 1)
        ELSE <<[start |-> p, end |-> e, title |-> Slice(s, t, e - 2)]>>
                 \o SectionMatches(s, e)

NoAbstract == [found |-> FALSE, content |-> ""]

\* _extract_abstract: None, or the cleaned text of the first abstract block
extract_abstract(text) ==
    LET low == ToLower(text)
        b == Find(low, "\\begin{abstract}", 1)
        e == IF b = 0 THEN 0 ELSE Find(low, "\\end{abstract}", b + 16)
    IN  IF b = 0 \/ e = 0 THEN NoAbstract
        ELSE [found |-> TRUE,
              content |-> clean_latex_content(Strip(Slice(text, b + 16, e - 1)))]

Section(title, content, order) == [title |-> title, content |-> content, order |-> order]

\* lines 79-95 for match i (from 1): the cleaned title and the cleaned content
\* up to the next match
HeadingCandidate(text, matches, i) ==
    LET start_pos == matches[i].end
        end_pos == IF i + 1 <= Len(matches) THEN matches[i + 1].start ELSE Len(text) + 1
    IN  [title |-> clean_latex_title(Strip(matches[i].title)),
         content |-> clean_latex_content(Strip(Slice(text, start_pos, end_pos - 1)))]

\* a mutant of the order given to a section: the index of its heading match
section_order_of_match(found, i) == i - 1

\* "order": len(sections)
section_order(found, i) == Len(found)

\* the loop of lines 77-106 from match i on
RECURSIVE ParseMatches(_, _, _, _)
ParseMatches(text, matches, i, found) ==
    IF i > Len(matches) THEN found
    ELSE LET cand == HeadingCandidate(text, matches, i)
         IN  IF ~is_valid_section_title(cand.title)
             THEN ParseMatches(text, matches, i + 1, found)
             ELSE IF ~is_valid_section(cand.content)
             THEN ParseMatches(text, matches, i + 1, found)
             ELSE ParseMatches(text, matches, i + 1,
                      Append(found,
                             Section(cand.title, cand.content, section_order(found, i))))

parse_latex_sections(input) ==
    LET text == remove_latex_comments(input)
        abstract == extract_abstract(text)
        first == IF abstract.found /\ abstract.content # ""
                 THEN <<Section("Abstract", abstract.content, 0)>>
                 ELSE <<>>
    IN  IF text = "" THEN <<>> ELSE ParseMatches(text, SectionMatches(text, 1), 1, first)

(***************************************************************************)
(* The documents the model draws from: an optional abstract block, then up *)
(* to MaxHeadings headings, each followed by a body.                       *)
(***************************************************************************)
Prose == "This section has one sentence that is long enough.\n"
Brief == "Too short. % a comment that alone would make the body long enough\n"
Choppy == "One two three. Four five six. Seven eight. Nine ten. End.\n"
Sparse == "a b c d e f g h i j k l. a b c d e f g h i j k l. a b c.\n"
Cited == "As shown in \\cite{smith2020} the results hold \\textbf{well}.\n"

Intro == "\\section{Intro}\n"
Abstract == "\\subsection*{Abstract}\n"
Figure == "\\section{Figure 1}\n"

\* a heading and the body after it
HeadedBodies ==
    {Intro \o Prose, Intro \o Brief, Intro \o Choppy, Intro \o Sparse, Intro \o Cited,
     Abstract \o Prose, Abstract \o Brief, Figure \o Prose}

AbstractBlocks ==
    {"", "\\begin{abstract}\n" \o Prose \o "\\end{abstract}\n",
     "\\Begin{Abstract}A short one.\\End{Abstract}\n"}

RECURSIVE HeadedParts(_)
HeadedParts(n) ==
    IF n = 0 THEN {""}
    ELSE {hb \o rest : hb \in HeadedBodies, rest \in HeadedParts(n - 1)}

\* documents of their own: a heading of the third level inside a section,
\* titles wrapped in formatting commands, and a body of two paragraphs
Details == "\\subsubsection{Details}\n"
Wrapped == "\\section{\\textbf{Method}}\n"
DoubleWrapped == "\\section{\\textbf{\\emph{Method}}}\n"
Styled == "\\section{\\textbf{Main} Results:}\n"
Paragraphs == "The first paragraph is long enough to count.\n\n\n\nThe second one follows the break.\n"
OtherDocuments ==
    {Intro \o Prose \o Details \o Prose, Wrapped \o Prose, DoubleWrapped \o Prose,
     Styled \o Prose, Intro \o Paragraphs}

Documents ==
    {a \o parts : a \in AbstractBlocks,
                  parts \in UNION {HeadedParts(n) : n \in 0..MaxHeadings}}
        \cup OtherDocuments

StartParse ==
    /\ latex_text \in Documents
    /\ sections = <<>>
    /\ parse_pc = "input"

IdleParse ==
    /\ latex_text = ""
    /\ sections = <<>>
    /\ parse_pc = "idle"

\* ArxivPaper.parse: self.sections = self._parse_latex_sections(latex_text)
Parse ==
    /\ parse_pc = "input"
    /\ sections' = parse_latex_sections(latex_text)
    /\ parse_pc' = "done"
    /\ UNCHANGED latex_text
    /\ UNCHANGED exceptParse

(***************************************************************************)
(* The methods of a parsed ArxivPaper: get_relevant_sections,              *)
(* get_text_for_llm, save_to_json and from_json.  An optional argument is  *)
(* a record: given tells whether it was passed, the other field its value. *)
(***************************************************************************)
EXCLUDED_SECTIONS ==
    {"references", "bibliography", "appendix", "supplementary",
     "acknowledgments", "acknowledgements", "author contributions",
     "funding", "ethics statement", "checklist", "supplementary material"}

\* sub in s
Contains(s, sub) == sub = "" \/ Find(s, sub, 1) # 0

NoList == [given |-> FALSE, list |-> <<>>]
List(l) == [given |-> TRUE, list |-> l]

\* a mutant of exclude_set: the caller's terms are added to the default ones
exclude_set_merged(exclude_list) ==
    EXCLUDED_SECTIONS
        \cup {ToLower(exclude_list.list[i]) : i \in 1..Len(exclude_list.list)}

\* lines 232-235
exclude_set(exclude_list) ==
    IF ~exclude_list.given THEN EXCLUDED_SECTIONS
    ELSE {ToLower(exclude_list.list[i]) : i \in 1..Len(exclude_list.list)}

get_relevant_sections(self, exclude_list) ==
    SelectSeq(self.sections,
              LAMBDA section :
                  ~\E excluded \in exclude_set(exclude_list) :
                      Contains(ToLower(section.title), excluded))

NoLimit == [given |-> FALSE, n |-> 0]
Chars(n) == [given |-> TRUE, n |-> n]

\* a mutant of abstract_part: the abstract of the metadata is added whatever
\* include_abstract says
abstract_part_always(self, include_abstract) ==
    IF "abstract" \in DOMAIN self.metadata
    THEN "Abstract:\n" \o self.metadata.abstract \o "\n\n"
    ELSE ""

\* lines 262-263: what the abstract of the metadata adds to text_parts
abstract_part(self, include_abstract) ==
    IF include_abstract /\ "abstract" \in DOMAIN self.metadata
    THEN "Abstract:\n" \o self.metadata.abstract \o "\n\n"
    ELSE ""

\* lines 267-268 and 270: what the sections of relevant add, joined
RECURSIVE section_parts(_)
section_parts(relevant) ==
    IF Len(relevant) = 0 THEN ""
    ELSE Head(relevant).title \o "\n" \o Head(relevant).content \o "\n\n"
             \o section_parts(Tail(relevant))

TruncationMarker == "\n\n[Text truncated...]"

\* `if max_chars`: None and 0 are false
Truthy(max_chars) == max_chars.given /\ max_chars.n # 0

get_text_for_llm(self, max_chars, include_abstract) ==
    LET full_text == abstract_part(self, include_abstract)
                         \o section_parts(get_relevant_sections(self, NoList))
    IN  IF Truthy(max_chars) /\ Len(full_text) > max_chars.n
        THEN Slice(full_text, 1, max_chars.n) \o TruncationMarker
        ELSE full_text

NoPath == [given |-> FALSE, parts |-> <<>>]
PathOf(parts) == [given |-> TRUE, parts |-> parts]

\* str(path) of a relative pathlib.Path given by its parts
str_of_path(parts) == IF Len(parts) = 0 THEN "." ELSE JoinWith(parts, "/")

\* Path(s).parts of a relative path: the pieces between slashes, without the
\* empty ones and the "." ones
path_of_str(s) == SelectSeq(SplitOn(s, "/"), LAMBDA piece : piece \notin {"", "."})

\* JSON: how json.dump writes a character of a string (ensure_ascii=False)
EscapeChar(c) ==
    CASE c = "\"" -> "\\\""
      [] c = "\\" -> "\\\\"
      [] c = "\n" -> "\\n"
      [] c = "\t" -> "\\t"
      [] OTHER -> c

\* the text json.dump writes between the quotes for the string s
RECURSIVE json_encode_string(_)
json_encode_string(s) ==
    IF Len(s) = 0 THEN ""
    ELSE IF Len(s) = 1 THEN EscapeChar(s)
    ELSE json_encode_string(Slice(s, 1, Len(s) \div 2))
             \o json_encode_string(Slice(s, Len(s) \div 2 + 1, Len(s)))

\* the character an escape sequence \c stands for
UnescapeChar(c) ==
    CASE c = "n" -> "\n"
      [] c = "t" -> "\t"
      [] OTHER -> c

\* the string json.load reads from the text t between two quotes
RECURSIVE json_decode_string(_)
json_decode_string(t) ==
    LET p == FindChar(t, "\\", 1)
    IN  IF p = 0 \/ p = Len(t) THEN t
        ELSE Slice(t, 1, p - 1) \o UnescapeChar(At(t, p + 1))
                 \o json_decode_string(Slice(t, p + 2, Len(t)))

\* a natural number in decimal, as json.dump writes it, and read back
DigitOf(n) ==
    CASE n = 0 -> "0" [] n = 1 -> "1" [] n = 2 -> "2" [] n = 3 -> "3" [] n = 4 -> "4"
      [] n = 5 -> "5" [] n = 6 -> "6" [] n = 7 -> "7" [] n = 8 -> "8" [] n = 9 -> "9"

RECURSIVE json_encode_int(_)
json_encode_int(n) ==
    IF n < 10 THEN DigitOf(n) ELSE json_encode_int(n \div 10) \o DigitOf(n % 10)

json_decode_int(t) == DigitsValue(t)

\* JSON values: null, or a string given by the text between its quotes
JsonNull == [null |-> TRUE, text |-> ""]
JsonString(s) == [null |-> FALSE, text |-> json_encode_string(s)]

\* a mutant of to_dict: the name of the file stands for the source path
to_dict_path_name(self) ==
    [arxiv_id |-> self.arxiv_id,
     source_path |-> IF self.source_path.given /\ Len(self.source_path.parts) > 0
                     THEN self.source_path.parts[Len(self.source_path.parts)]
                     ELSE "",
     has_source_path |-> self.source_path.given,
     metadata |-> self.metadata,
     sections |-> self.sections,
     parsed_date |-> self.parsed_date]

\* to_dict: source_path is str(self.source_path), or None (has_source_path
\* false)
to_dict(self) ==
    [arxiv_id |-> self.arxiv_id,
     source_path |-> IF self.source_path.given
                     THEN str_of_path(self.source_path.parts) ELSE "",
     has_source_path |-> self.source_path.given,
     metadata |-> self.metadata,
     sections |-> self.sections,
     parsed_date |-> self.parsed_date]

\* json.dump(data, f): the document written for the dictionary data
json_dump(data) ==
    [exists |-> TRUE,
     arxiv_id |-> JsonString(data.arxiv_id),
     source_path |-> IF data.has_source_path THEN JsonString(data.source_path)
                     ELSE JsonNull,
     metadata |-> [key \in DOMAIN data.metadata |-> JsonString(data.metadata[key])],
     sections |-> [k \in 1..Len(data.sections) |->
                      [title |-> JsonString(data.sections[k].title),
                       content |-> JsonString(data.sections[k].content),
                       order |-> json_encode_int(data.sections[k].order)]],
     parsed_date |-> JsonString(data.parsed_date)]

\* json.load(f): the dictionary read from the document
json_load(file) ==
    [arxiv_id |-> json_decode_string(file.arxiv_id.text),
     source_path |-> json_decode_string(file.source_path.text),
     has_source_path |-> ~file.source_path.null,
     metadata |-> [key \in DOMAIN file.metadata |->
                      json_decode_string(file.metadata[key].text)],
     sections |-> [k \in 1..Len(file.sections) |->
                      Section(json_decode_string(file.sections[k].title.text),
                              json_decode_string(file.sections[k].content.text),
                              json_decode_int(file.sections[k].order))],
     parsed_date |-> json_decode_string(file.parsed_date.text)]

\* from_json: `if data.get('source_path')` and, in __init__, `if source_path`
\* are false for None and for the empty string
from_json(file) ==
    LET data == json_load(file)
    IN  [arxiv_id |-> data.arxiv_id,
         source_path |-> IF data.has_source_path /\ data.source_path # ""
                         THEN PathOf(path_of_str(data.source_path)) ELSE NoPath,
         metadata |-> data.metadata,
         sections |-> data.sections,
         parsed_date |-> data.parsed_date]

\* the papers the model draws from: up to MaxSections sections, each with a
\* title of Titles and a content that names the title, in the order parse
\* gives them
Titles == {"Introduction", "Related Work", "References", "Appendix", "Experiments"}

ContentOf(title) == "Text of the section named " \o title \o " with enough words."

RECURSIVE TitleLists(_)
TitleLists(n) ==
    IF n = 0 THEN {<<>>}
    ELSE TitleLists(n - 1)
             \cup {Append(l, t) : l \in {x \in TitleLists(n - 1) : Len(x) = n - 1},
                                  t \in Titles}

SectionsOf(titles) ==
    [k \in 1..Len(titles) |-> Section(titles[k], ContentOf(titles[k]), k - 1)]

Metadatas ==
    {<< >>, [title |-> "A Paper"],
     [title |-> "A Paper", abstract |-> "We report \"new\" results of 5\\%."]}

Papers ==
    {[arxiv_id |-> "2301.12345", source_path |-> p, metadata |-> m,
      sections |-> SectionsOf(titles), parsed_date |-> "2026-01-02T03:04:05"] :
        p \in {NoPath, PathOf(<<>>), PathOf(<<"sources", "2301.12345", "main.tex">>)},
        m \in Metadatas, titles \in TitleLists(MaxSections)}

ExcludeLists ==
    {NoList, List(<<>>), List(<<"Related">>), List(<<"WORK", "intro">>), List(<<"">>)}

MaxCharsArgs == {NoLimit, Chars(0), Chars(1), Chars(100), Chars(1000)}

NoCall == [op |-> "none"]

NoFile == [exists |-> FALSE]

StartPaper ==
    /\ paper \in Papers
    /\ json_file = NoFile
    /\ call = NoCall

IdlePaper ==
    /\ paper = << >>
    /\ json_file = NoFile
    /\ call = NoCall

\* The two queries leave the paper as it is: the model follows one query
\* of each paper.
GetRelevantSections ==
    \E exclude_list \in ExcludeLists :
        /\ call = NoCall
        /\ call' = [op |-> "get_relevant_sections", exclude_list |-> exclude_list,
                    result |-> get_relevant_sections(paper, exclude_list)]
        /\ UNCHANGED <<paper, json_file>>
        /\ UNCHANGED exceptPaper

GetTextForLlm ==
    \E max_chars \in MaxCharsArgs, include_abstract \in BOOLEAN :
        /\ call = NoCall
        /\ call' = [op |-> "get_text_for_llm", max_chars |-> max_chars,
                    include_abstract |-> include_abstract,
                    result |-> get_text_for_llm(paper, max_chars, include_abstract)]
        /\ UNCHANGED <<paper, json_file>>
        /\ UNCHANGED exceptPaper

SaveToJson ==
    /\ json_file' = json_dump(to_dict(paper))
    /\ call' = [op |-> "save_to_json"]
    /\ UNCHANGED paper
    /\ UNCHANGED exceptPaper

\* from_json of a file that does not exist raises: no paper is made
FromJson ==
    /\ json_file.exists
    /\ call' = [op |-> "from_json", result |-> from_json(json_file)]
    /\ UNCHANGED <<paper, json_file>>
    /\ UNCHANGED exceptPaper

(***************************************************************************)
(* download_arxiv_papers.  A candidate is its 'id': a number of 1..MaxId    *)
(* that stands for the identifier string, or NoId when the candidate has   *)
(* none.  fetch_paper_from_arxiv and save_to_json are calls to the outside: *)
(* each of their outcomes is a step of its own.                            *)
(***************************************************************************)
NoId == 0
Ids == 1..MaxId

\* line 27
papers_to_process(cands, max_pdf_calls) ==
    IF max_pdf_calls # -1
    THEN SubSeq(cands, 1, IF max_pdf_calls < Len(cands) THEN max_pdf_calls ELSE Len(cands))
    ELSE cands

\* sorted(list(S))
RECURSIVE Sorted(_)
Sorted(S) ==
    IF S = {} THEN <<>>
    ELSE LET least == CHOOSE x \in S : \A y \in S : x <= y
         IN  <<least>> \o Sorted(S \ {least})

\* set(l)
SetOf(l) == {l[i] : i \in 1..Len(l)}

NoFailedFile == [exists |-> FALSE, ids |-> <<>>]
FailedFile(ids) == [exists |-> TRUE, ids |-> ids]

\* a mutant of previously_failed: nothing is skipped
previously_failed_never(arxiv_id, failed) == FALSE

\* line 51
previously_failed(arxiv_id, failed) == arxiv_id \in failed

(***************************************************************************)
(* ArxivPdfPaper (model/pdf_paper.py) and fetch_arxiv_pdf_paper             *)
(* (utils/pdf_fetcher.py): of a paper the model keeps the two paths, of its *)
(* JSON file the value of the key 'pdf_path'.                               *)
(***************************************************************************)
PdfDir == <<"pdfs">>
TempDir == <<"tmp">>
PdfName(id) == json_encode_int(id) \o ".pdf"

\* pdf_fetcher.py, lines 111-139: the paper a successful download makes
fetch_arxiv_pdf_paper(id, keep) ==
    LET download_dir == IF keep THEN PdfDir ELSE TempDir
        pdf_path == PathOf(Append(download_dir, PdfName(id)))
    IN  [arxiv_id |-> id,
         pdf_path |-> IF keep THEN pdf_path ELSE NoPath,
         temp_pdf_path |-> IF ~keep THEN pdf_path ELSE NoPath]

\* pdf_paper.py, line 34: a Path is true, None is not
get_pdf_path_for_upload(self) ==
    IF self.pdf_path.given THEN self.pdf_path ELSE self.temp_pdf_path

\* pdf_paper.py, lines 81-88: the dictionary has no key for _temp_pdf_path
pdf_to_dict(self) ==
    [arxiv_id |-> self.arxiv_id,
     pdf_path |-> IF self.pdf_path.given THEN JsonString(str_of_path(self.pdf_path.parts))
                  ELSE JsonNull]

PdfFile(data) == [exists |-> TRUE, pdf_path |-> data.pdf_path]

\* pdf_paper.py, lines 112-124: `if data.get('pdf_path')` is false for null
\* and for the empty string; __init__ sets _temp_pdf_path to None
pdf_from_json(id, file) ==
    LET pdf_path == IF file.pdf_path.null THEN "" ELSE json_decode_string(file.pdf_path.text)
    IN  [arxiv_id |-> id,
         pdf_path |-> IF pdf_path # "" THEN PathOf(path_of_str(pdf_path)) ELSE NoPath,
         temp_pdf_path |-> NoPath]

ToProcess == papers_to_process(candidates, max_download_calls)
InLoop == dl_pc = "loop" /\ dl_index <= Len(ToProcess)
arxiv_id == ToProcess[dl_index]

\* lines 53, 64: the outcomes of a candidate that end in `continue`
Continued == {"skipped", "loaded"}

\* a mutant of reaches_sleep: `continue` does not keep the loop from line 85
reaches_sleep_continued(id, outcome) == id # NoId /\ outcome # "load_raised"

\* line 85: time.sleep(3) is the last statement under `if arxiv_id:`, after
\* the try block; the handling of a candidate reaches it when the candidate
\* has an id and the handling neither continued nor left the function
reaches_sleep(id, outcome) ==
    id # NoId /\ outcome \notin Continued /\ outcome # "load_raised"

\* what the history keeps of the candidate the loop is at
Handled(outcome) ==
    [id |-> arxiv_id,
     was_failed |-> arxiv_id \in failed_downloads,
     was_checkpointed |-> arxiv_id # NoId /\ checkpoints[arxiv_id] # "absent",
     outcome |-> outcome,
     slept |-> reaches_sleep(arxiv_id, outcome)]

\* the parts of the state the loop leaves alone
LoopFrame ==
    /\ UNCHANGED <<candidates, max_download_calls, save_parsed, parsed_dir, failed_file,
                   failed_at_start, keep_pdf>>
    /\ UNCHANGED exceptDownload

\* the loop goes on to the next candidate
NextCandidate(outcome) ==
    /\ dl_index' = dl_index + 1
    /\ handled' = Append(handled, Handled(outcome))
    /\ dl_pc' = dl_pc
    /\ LoopFrame

\* lines 26-46: the directories are made, the failed-downloads file is read
StartRun ==
    /\ dl_pc = "start"
    /\ parsed_dir' = (parsed_dir \/ save_parsed)
    /\ failed_downloads' = IF failed_file.exists THEN SetOf(failed_file.ids) ELSE {}
    /\ pdf_papers' = <<>>
    /\ paper_paths' = <<>>
    /\ dl_index' = 1
    /\ dl_pc' = "loop"
    /\ UNCHANGED <<candidates, max_download_calls, save_parsed, failed_file, checkpoints,
                   handled, failed_at_start, keep_pdf, parsed_files>>
    /\ UNCHANGED exceptDownload

\* lines 48-49: a candidate without an id is passed over
NoIdCandidate ==
    /\ InLoop
    /\ arxiv_id = NoId
    /\ NextCandidate("no_id")
    /\ UNCHANGED <<failed_downloads, pdf_papers, checkpoints, parsed_files, paper_paths>>

\* lines 51-53
SkipFailed ==
    /\ InLoop
    /\ arxiv_id # NoId
    /\ previously_failed(arxiv_id, failed_downloads)
    /\ NextCandidate("skipped")
    /\ UNCHANGED <<failed_downloads, pdf_papers, checkpoints, parsed_files, paper_paths>>

\* lines 56-64: the checkpoint file exists and from_json reads it
LoadCheckpoint ==
    /\ InLoop
    /\ arxiv_id # NoId
    /\ ~previously_failed(arxiv_id, failed_downloads)
    /\ checkpoints[arxiv_id] = "good"
    /\ pdf_papers' = Append(pdf_papers, arxiv_id)
    /\ paper_paths' = Append(paper_paths, pdf_from_json(arxiv_id, parsed_files[arxiv_id]))
    /\ NextCandidate("loaded")
    /\ UNCHANGED <<failed_downloads, checkpoints, parsed_files>>

\* lines 56-59: the checkpoint file exists and from_json raises; the call
\* stands outside the try block, the exception leaves the function
CheckpointUnreadable ==
    /\ InLoop
    /\ arxiv_id # NoId
    /\ ~previously_failed(arxiv_id, failed_downloads)
    /\ checkpoints[arxiv_id] = "unreadable"
    /\ dl_pc' = "raised"
    /\ handled' = Append(handled, Handled("load_raised"))
    /\ UNCHANGED <<dl_index, failed_downloads, pdf_papers, checkpoints, parsed_files,
                   paper_paths>>
    /\ LoopFrame

\* there is no checkpoint: fetch_paper_from_arxiv is called
AtFetch ==
    /\ InLoop
    /\ arxiv_id # NoId
    /\ ~previously_failed(arxiv_id, failed_downloads)
    /\ checkpoints[arxiv_id] = "absent"

\* a mutant of FetchPaper: the paper is never saved
FetchPaperUnsaved ==
    /\ AtFetch
    /\ pdf_papers' = Append(pdf_papers, arxiv_id)
    /\ paper_paths' = Append(paper_paths, fetch_arxiv_pdf_paper(arxiv_id, keep_pdf))
    /\ NextCandidate("fetched")
    /\ UNCHANGED <<failed_downloads, checkpoints, parsed_files>>

\* lines 68-75: the fetch returns a paper, and it is saved if save_parsed
FetchPaper ==
    /\ AtFetch
    /\ LET pdf_paper == fetch_arxiv_pdf_paper(arxiv_id, keep_pdf)
       IN  /\ parsed_files' =
                 IF save_parsed
                 THEN [parsed_files EXCEPT ![arxiv_id] = PdfFile(pdf_to_dict(pdf_paper))]
                 ELSE parsed_files
           /\ paper_paths' = Append(paper_paths, pdf_paper)
    /\ checkpoints' = IF save_parsed THEN [checkpoints EXCEPT ![arxiv_id] = "good"]
                      ELSE checkpoints
    /\ pdf_papers' = Append(pdf_papers, arxiv_id)
    /\ NextCandidate("fetched")
    /\ UNCHANGED failed_downloads

\* lines 68-73, 81-83: the fetch returns a paper and save_to_json raises,
\* before it opened the file or while it wrote it
SaveRaises ==
    /\ AtFetch
    /\ save_parsed
    /\ \E left \in {"absent", "unreadable"} :
          checkpoints' = [checkpoints EXCEPT ![arxiv_id] = left]
    /\ failed_downloads' = failed_downloads \cup {arxiv_id}
    /\ NextCandidate("save_raised")
    /\ UNCHANGED <<pdf_papers, parsed_files, paper_paths>>

\* lines 68-70, 76-79: the fetch returns nothing
FetchNothing ==
    /\ AtFetch
    /\ failed_downloads' = failed_downloads \cup {arxiv_id}
    /\ NextCandidate("fetched_nothing")
    /\ UNCHANGED <<pdf_papers, checkpoints, parsed_files, paper_paths>>

\* lines 68, 81-83: the fetch raises
FetchRaises ==
    /\ AtFetch
    /\ failed_downloads' = failed_downloads \cup {arxiv_id}
    /\ NextCandidate("fetch_raised")
    /\ UNCHANGED <<pdf_papers, checkpoints, parsed_files, paper_paths>>

\* lines 88-94: the failed-downloads file is written and pdf_papers returned;
\* open raises when the directory does not exist
WriteFailed ==
    /\ dl_pc = "loop"
    /\ dl_index > Len(ToProcess)
    /\ IF parsed_dir
       THEN /\ failed_file' = FailedFile(Sorted(failed_downloads))
            /\ dl_pc' = "done"
       ELSE /\ failed_file' = failed_file
            /\ dl_pc' = "raised"
    /\ UNCHANGED <<candidates, max_download_calls, save_parsed, parsed_dir, checkpoints,
                   failed_downloads, pdf_papers, dl_index, handled, failed_at_start,
                   keep_pdf, parsed_files, paper_paths>>
    /\ UNCHANGED exceptDownload

\* The runs the model draws from.  Without the directory there is no file
\* in it; the failed-downloads file is one an earlier run wrote.
CandidateLists == UNION {[1..n -> Ids \cup {NoId}] : n \in 0..MaxCandidates}
Limits == {-1, 0, 2}
CheckpointStates == [Ids -> {"absent", "good", "unreadable"}]
FailedFiles == {NoFailedFile} \cup {FailedFile(Sorted(S)) : S \in SUBSET Ids}

\* the checkpoint files an earlier run with save_files false left
SavedWithoutPdf ==
    [id \in Ids |-> IF checkpoints[id] = "good"
                    THEN PdfFile(pdf_to_dict(fetch_arxiv_pdf_paper(id, FALSE)))
                    ELSE NoFile]

StartStorage ==
    /\ candidates \in CandidateLists
    /\ max_download_calls \in Limits
    /\ save_parsed \in BOOLEAN
    /\ parsed_dir \in BOOLEAN
    /\ failed_file \in FailedFiles
    /\ checkpoints \in CheckpointStates
    /\ ~parsed_dir =>
          /\ failed_file = NoFailedFile
          /\ \A id \in Ids : checkpoints[id] = "absent"
    /\ failed_downloads = {}
    /\ pdf_papers = <<>>
    /\ dl_index = 1
    /\ dl_pc = "start"
    /\ handled = <<>>
    /\ failed_at_start = SetOf(failed_file.ids)
    /\ paper_paths = <<>>

\* config['save_files'] is left at its default, false, in this run and before
StartDownload ==
    /\ StartStorage
    /\ keep_pdf = FALSE
    /\ parsed_files = SavedWithoutPdf

\* save_files is true or false in this run, and was in the run that left a file
StartUpload ==
    /\ StartStorage
    /\ keep_pdf \in BOOLEAN
    /\ parsed_files \in [Ids -> {NoFile} \cup {PdfFile(pdf_to_dict(fetch_arxiv_pdf_paper(id, keep)))
                                             : id \in Ids, keep \in BOOLEAN}]
    /\ \A id \in Ids :
          IF checkpoints[id] = "good"
          THEN \E keep \in BOOLEAN :
                  parsed_files[id] = PdfFile(pdf_to_dict(fetch_arxiv_pdf_paper(id, keep)))
          ELSE parsed_files[id] = NoFile

IdleDownload ==
    /\ candidates = <<>>
    /\ max_download_calls = -1
    /\ save_parsed = FALSE
    /\ parsed_dir = FALSE
    /\ failed_file = NoFailedFile
    /\ checkpoints = << >>
    /\ failed_downloads = {}
    /\ pdf_papers = <<>>
    /\ dl_index = 1
    /\ dl_pc = "idle"
    /\ handled = <<>>
    /\ failed_at_start = {}
    /\ keep_pdf = FALSE
    /\ parsed_files = << >>
    /\ paper_paths = <<>>

(***************************************************************************)
(* scan_arxiv_metadata and filter_arxiv_metadata (scanner.py).  A record   *)
(* of the stream has the fields the filter reads.  An update_date is the   *)
(* day it names, in the order of the ISO strings, or a string that         *)
(* fromisoformat rejects, or it is missing.                                *)
(***************************************************************************)
NoDate == [given |-> FALSE, valid |-> FALSE, day |-> 0]
BadDate == [given |-> TRUE, valid |-> FALSE, day |-> 0]
Date(day) == [given |-> TRUE, valid |-> TRUE, day |-> day]

\* lines 58-60: paper.get('categories', '').split(), as a set
paper_categories(rec) == SetOf(SplitOn(rec.categories, " ")) \ {""}

\* lines 64-74: the date check rejects the paper
date_rejected(rec, config) ==
    /\ config.min_date.given
    /\ rec.update_date.given
    /\ \/ ~rec.update_date.valid
       \/ rec.update_date.day < config.min_date.day

\* lines 52-96
filter_arxiv_metadata(rec, config) ==
    LET title == ToLower(rec.title)
        abstract_text == ToLower(rec.abstract)
    IN  IF paper_categories(rec) \cap config.allowed_categories = {} THEN FALSE
        ELSE IF date_rejected(rec, config) THEN FALSE
        ELSE IF config.is_published /\ rec.doi = "" THEN FALSE
        ELSE IF \E term \in config.exclude_title_keywords : Contains(title, term) THEN FALSE
        ELSE IF /\ config.title_abstract_keywords # {}
                /\ ~\E kw \in config.title_abstract_keywords :
                       \/ Contains(abstract_text, ToLower(kw))
                       \/ Contains(title, ToLower(kw))
             THEN FALSE
        ELSE TRUE

\* a mutant of scan_limit_reached: the loop stops one record late
scan_limit_reached_late(count, limit) == limit # -1 /\ count > limit

\* line 27
scan_limit_reached(count, limit) == limit # -1 /\ count >= limit

\* the keys of ARXIV_METADATA_SCANNING_PARAMETERS the filter reads
ScanConfig ==
    [allowed_categories |-> {"cs.LG", "stat.ML"},
     min_date |-> Date(2),
     is_published |-> FALSE,
     exclude_title_keywords |-> {"survey"},
     title_abstract_keywords |-> {"Transformer"}]

\* lines 39-49: the loop is left; without candidates the process exits
LeaveScan ==
    /\ scan_pc' = IF scan_candidates = <<>> THEN "exit0" ELSE "returned"
    /\ UNCHANGED <<data_exists, stream, max_metadata_scan_limit, scan_candidates,
                   scanned_count, scan_pos, examined>>
    /\ UNCHANGED exceptScan

\* lines 23-25, 36-38 and data_ingester.py lines 10-11: the data file is
\* missing, the first record asked of the stream raises FileNotFoundError
DataFileMissing ==
    /\ scan_pc = "loop"
    /\ ~data_exists
    /\ scan_pc' = "exit1"
    /\ UNCHANGED <<data_exists, stream, max_metadata_scan_limit, scan_candidates,
                   scanned_count, scan_pos, examined>>
    /\ UNCHANGED exceptScan

\* lines 25-28: a record is taken and the limit is reached
ScanBreak ==
    /\ scan_pc = "loop"
    /\ data_exists
    /\ scan_pos <= Len(stream)
    /\ scan_limit_reached(scanned_count, max_metadata_scan_limit)
    /\ LeaveScan

\* lines 25-34: a record is taken and filtered
ScanRecord ==
    /\ scan_pc = "loop"
    /\ data_exists
    /\ scan_pos <= Len(stream)
    /\ ~scan_limit_reached(scanned_count, max_metadata_scan_limit)
    /\ scan_candidates' =
          IF filter_arxiv_metadata(stream[scan_pos], ScanConfig)
          THEN Append(scan_candidates, stream[scan_pos])
          ELSE scan_candidates
    /\ scanned_count' = scanned_count + 1
    /\ scan_pos' = scan_pos + 1
    /\ examined' = Append(examined, stream[scan_pos])
    /\ UNCHANGED <<data_exists, stream, max_metadata_scan_limit, scan_pc>>
    /\ UNCHANGED exceptScan

\* line 25: the stream has no more records
ScanExhausted ==
    /\ scan_pc = "loop"
    /\ data_exists
    /\ scan_pos > Len(stream)
    /\ LeaveScan

\* The records the streams are made of: two that pass (the keyword stands in
\* the title of one, in the abstract of the other), and one rejected by each
\* of the category, date and title checks.
Record(id, categories, update_date, title, abstract) ==
    [id |-> id, categories |-> categories, update_date |-> update_date, doi |-> "",
     title |-> title, abstract |-> abstract]
Corpus ==
    {Record("2101.00001", "cs.LG cs.AI", Date(3), "Sparse Transformers", "We prune."),
     Record("2101.00002", "math.CO", Date(3), "Transformer Graphs", "We count."),
     Record("1901.00003", "stat.ML", Date(1), "Early Transformers", "We recall."),
     Record("2101.00004", "cs.LG", Date(3), "A Survey of Transformers", "We list."),
     Record("2101.00005", "stat.ML  cs.CV", NoDate, "Pruning", "For TRANSFORMER models."),
     Record("2101.00006", "cs.LG", BadDate, "Dated Transformers", "We date.")}
Streams == UNION {[1..n -> Corpus] : n \in 0..MaxRecords}
ScanLimits == -1..MaxScanLimit

StartScan ==
    /\ data_exists \in BOOLEAN
    /\ stream \in Streams
    /\ ~data_exists => stream = <<>>
    /\ max_metadata_scan_limit \in ScanLimits
    /\ scan_candidates = <<>>
    /\ scanned_count = 0
    /\ scan_pos = 1
    /\ scan_pc = "loop"
    /\ examined = <<>>

IdleScan ==
    /\ data_exists = FALSE
    /\ stream = <<>>
    /\ max_metadata_scan_limit = -1
    /\ scan_candidates = <<>>
    /\ scanned_count = 0
    /\ scan_pos = 1
    /\ scan_pc = "idle"
    /\ examined = <<>>

(***************************************************************************)
(* filter_papers (filter.py) over ArxivPdfPaper objects (model/pdf_paper.py). *)
(* A paper is its arxiv_id and its raw_text, which may be None.            *)
(***************************************************************************)
NoText == [given |-> FALSE, text |-> ""]
Text(t) == [given |-> TRUE, text |-> t]
PdfText(arxiv, raw_text) == [arxiv_id |-> arxiv, raw_text |-> raw_text]

\* pdf_paper.py lines 36-43
get_raw_text(self) == IF self.raw_text.given /\ self.raw_text.text # "" THEN self.raw_text.text ELSE ""

\* a mutant of keyword_in_text: the text is compared as it is written
keyword_in_text_cased(kw, pdf_text) == Contains(pdf_text, ToLower(kw))

\* filter.py line 32, one keyword: kw.lower() in pdf_text, pdf_text lowered at line 30
keyword_in_text(kw, pdf_text) == Contains(ToLower(pdf_text), ToLower(kw))

\* filter.py lines 30-32
matches_keywords(pdf_paper, keywords) ==
    \E i \in 1..Len(keywords) : keyword_in_text(keywords[i], get_raw_text(pdf_paper))

\* filter.py lines 20-35
filter_by_keywords(papers, keywords) ==
    IF keywords = <<>> THEN papers
    ELSE SelectSeq(papers, LAMBDA p : matches_keywords(p, keywords))

\* filter.py line 43: the preview holds the first n papers
PreviewCount == 10
NoPreview == [exists |-> FALSE, papers |-> <<>>]
Preview(papers) ==
    [exists |-> TRUE,
     papers |-> SubSeq(papers, 1, IF Len(papers) < PreviewCount THEN Len(papers) ELSE PreviewCount)]

\* filter.py lines 8-51
FilterPapers ==
    /\ filter_pc = "input"
    /\ LET filtered == filter_by_keywords(parsed_papers, content_keywords)
       IN  IF filtered = <<>>
           THEN /\ filter_pc' = "exit0"
                /\ UNCHANGED <<filtered_papers, preview_file>>
           ELSE /\ filter_pc' = "returned"
                /\ filtered_papers' = filtered
                /\ preview_file' = IF preview_filtered_papers THEN Preview(filtered)
                                   ELSE preview_file
    /\ UNCHANGED <<parsed_papers, content_keywords, preview_filtered_papers>>
    /\ UNCHANGED exceptFilter

\* The papers and keyword lists the model draws from
PdfTexts ==
    {PdfText("2101.00001", Text("This paper discusses Machine Learning techniques.")),
     PdfText("2101.00002", Text("This paper is about quantum computing.")),
     PdfText("2101.00003", Text("Deep NEURAL network architectures are explored.")),
     PdfText("2101.00004", NoText)}
PaperLists == UNION {[1..n -> PdfTexts] : n \in 0..MaxPapers}
KeywordLists ==
    {<<>>, <<"MACHINE LEARNING">>, <<"machine learning", "neural network">>,
     <<"nonexistent_keyword_xyz">>, <<"Quantum", "deep">>}

StartFilter ==
    /\ parsed_papers \in PaperLists
    /\ content_keywords \in KeywordLists
    /\ preview_filtered_papers \in BOOLEAN
    /\ filtered_papers = <<>>
    /\ preview_file = NoPreview
    /\ filter_pc = "input"

IdleFilter ==
    /\ parsed_papers = <<>>
    /\ content_keywords = <<>>
    /\ preview_filtered_papers = FALSE
    /\ filtered_papers = <<>>
    /\ preview_file = NoPreview
    /\ filter_pc = "idle"

(***************************************************************************)
(* The construction of a SOTAEntry from a response, in the three modules   *)
(* that declare the class.  The other fields of the response are present   *)
(* and valid.  A "before" validator runs on a value the response gives,    *)
(* null included; it does not run on a default, and a required field that  *)
(* is missing fails the validation.                                        *)
(***************************************************************************)
SchemaVariants == {"core", "generator", "schema"}

\* the response has no metric_value key
AbsentMetric == [kind |-> "absent", s |-> "", n |-> 0, d |-> 1]

\* core.py line 12: Field(None, ...); generator.py line 12 and schema.py
\* line 15: Field(..., ...)
metric_required(variant) == variant # "core"

NoEntry == [valid |-> FALSE, has_metric |-> FALSE, metric_value |-> Sentinel]
EntryWith(value) == [valid |-> TRUE, has_metric |-> TRUE, metric_value |-> value]
\* an entry whose metric_value is None
EntryWithNone == [valid |-> TRUE, has_metric |-> FALSE, metric_value |-> Sentinel]

\* SOTAEntry(**response)
ConstructEntry ==
    /\ entry_pc = "input"
    /\ entry' = IF response.kind = "absent"
                THEN IF metric_required(schema_variant) THEN NoEntry ELSE EntryWithNone
                ELSE EntryWith(normalize_metric(response))
    /\ entry_pc' = "done"
    /\ UNCHANGED <<schema_variant, response>>
    /\ UNCHANGED exceptEntry

Responses ==
    {AbsentMetric, RawNone, RawNum(-1, 1), RawNum(85, 1), RawNum(85, 100)}
        \cup {RawStr(s) : s \in StringsUpTo(MetricChars, MaxResponseLen)}

StartEntry ==
    /\ schema_variant \in SchemaVariants
    /\ response \in Responses
    /\ entry = NoEntry
    /\ entry_pc = "input"

IdleEntry ==
    /\ schema_variant = "schema"
    /\ response = RawNone
    /\ entry = NoEntry
    /\ entry_pc = "idle"

(***************************************************************************)
(* analyze_papers (analyzer.py).  client.analyze_paper_from_pdf is a call   *)
(* to the outside: it returns an entry, whose metric_value the validator   *)
(* normalize_metric made, or an entry whose metric_value is None, or None, *)
(* or it raises; each outcome is a step of its own.                        *)
(***************************************************************************)
\* line 41
llm_papers_to_process(papers, limit) ==
    IF limit # -1
    THEN SubSeq(papers, 1, IF limit < Len(papers) THEN limit ELSE Len(papers))
    ELSE papers

LlmToProcess == llm_papers_to_process(llm_papers, max_llm_calls)
InLlmLoop == an_pc = "loop" /\ an_index <= Len(LlmToProcess)

\* lines 53-62: the row of an entry; of its columns the model keeps "Metric"
Row(pdf_paper, entry_read) == [paper |-> pdf_paper, Metric |-> entry_read.metric_value]

\* a mutant of has_metric_value: the sentinel counts as no metric
has_metric_value_reported(entry_read) ==
    entry_read.has_metric /\ entry_read.metric_value # Sentinel

\* line 52: entry.metric_value is not None
has_metric_value(entry_read) == entry_read.has_metric

\* the metric_value strings and numbers of the responses the model draws from
AnalyzedResponses == {RawNone, RawStr("85%"), RawStr("n/a"), RawNum(42, 100), RawNum(-1, 1)}
AnalyzedEntries == {EntryWith(normalize_metric(r)) : r \in AnalyzedResponses} \cup {EntryWithNone}

\* lines 31-38: the client cannot be made, the process exits with status 1
ClientInitFails ==
    /\ an_pc = "start"
    /\ ~client_ok
    /\ an_pc' = "exit1"
    /\ UNCHANGED <<llm_papers, max_llm_calls, client_ok, results, leaderboard, an_index>>
    /\ UNCHANGED exceptAnalyze

\* lines 31-45
StartAnalysis ==
    /\ an_pc = "start"
    /\ client_ok
    /\ an_pc' = "loop"
    /\ an_index' = 1
    /\ results' = <<>>
    /\ UNCHANGED <<llm_papers, max_llm_calls, client_ok, leaderboard>>
    /\ UNCHANGED exceptAnalyze

\* lines 47-63: the client returns an entry
EntryReturned ==
    /\ InLlmLoop
    /\ \E entry_read \in AnalyzedEntries :
          results' = IF has_metric_value(entry_read)
                     THEN Append(results, Row(LlmToProcess[an_index], entry_read))
                     ELSE results
    /\ an_index' = an_index + 1
    /\ UNCHANGED <<llm_papers, max_llm_calls, client_ok, leaderboard, an_pc>>
    /\ UNCHANGED exceptAnalyze

\* lines 49-52, 65-66: the client returns None, or raises and the loop logs it
NoEntryReturned ==
    /\ InLlmLoop
    /\ an_index' = an_index + 1
    /\ UNCHANGED <<llm_papers, max_llm_calls, client_ok, results, leaderboard, an_pc>>
    /\ UNCHANGED exceptAnalyze

\* the rows in an order in which no Metric is below a later one
SortedByMetric(rows) ==
    {sorted \in [1..Len(rows) -> {rows[k] : k \in 1..Len(rows)}] :
        /\ \A row \in {rows[k] : k \in 1..Len(rows)} :
              Cardinality({k \in 1..Len(rows) : sorted[k] = row})
                  = Cardinality({k \in 1..Len(rows) : rows[k] = row})
        /\ \A i, j \in 1..Len(rows) :
              i < j => ~FracLess(sorted[i].Metric, sorted[j].Metric)}

\* lines 70-87: the leaderboard is written when there are results
WriteLeaderboard ==
    /\ an_pc = "loop"
    /\ an_index > Len(LlmToProcess)
    /\ IF results # <<>> THEN leaderboard' \in SortedByMetric(results)
       ELSE leaderboard' = leaderboard
    /\ an_pc' = "returned"
    /\ UNCHANGED <<llm_papers, max_llm_calls, client_ok, results, an_index>>
    /\ UNCHANGED exceptAnalyze

LlmLimits == {-1, 0, 2}

StartAnalyze ==
    /\ llm_papers \in {[k \in 1..n |-> k] : n \in 0..MaxAnalyzed}
    /\ max_llm_calls \in LlmLimits
    /\ client_ok \in BOOLEAN
    /\ results = <<>>
    /\ leaderboard = <<>>
    /\ an_index = 1
    /\ an_pc = "start"

IdleAnalyze ==
    /\ llm_papers = <<>>
    /\ max_llm_calls = -1
    /\ client_ok = FALSE
    /\ results = <<>>
    /\ leaderboard = <<>>
    /\ an_index = 1
    /\ an_pc = "idle"

(***************************************************************************)
(* Batch runs one after another against the same storage: the checkpoint   *)
(* files and the failed-downloads file are what the run before left, the   *)
(* configuration is the same, the candidates are those of a new scan.      *)
(***************************************************************************)
\* download_arxiv_papers returned and is called again
RunAgain ==
    /\ dl_pc = "done"
    /\ run < MaxRuns
    /\ run' = run + 1
    /\ candidates' \in CandidateLists
    /\ failed_downloads' = {}
    /\ pdf_papers' = <<>>
    /\ paper_paths' = <<>>
    /\ dl_index' = 1
    /\ dl_pc' = "start"
    /\ failed_at_start' = SetOf(failed_file.ids)
    /\ UNCHANGED <<max_download_calls, save_parsed, parsed_dir, failed_file, checkpoints,
                   handled, keep_pdf, parsed_files>>
    /\ UNCHANGED <<varsMetric, varsComment, varsResolve, varsParse, varsPaper, varsScan,
                   varsFilter, varsEntry, varsAnalyze>>

\* the first run, config['save_parsed_papers'] true
StartRerun ==
    /\ StartDownload
    /\ save_parsed
    /\ run = 1

IdleRerun == run = 0

(***************************************************************************)
(* Specifications: one per component, the other components idle.           *)
(***************************************************************************)
InitMetric == StartMetric /\ IdleComment /\ IdleResolve /\ IdleParse /\ IdlePaper /\ IdleDownload
    /\ IdleScan
    /\ IdleFilter
    /\ IdleEntry
    /\ IdleAnalyze
    /\ IdleRerun
NextMetric == Validate
SpecMetric == InitMetric /\ [][NextMetric]_vars

InitComment == StartComment /\ IdleMetric /\ IdleResolve /\ IdleParse /\ IdlePaper /\ IdleDownload
    /\ IdleScan
    /\ IdleFilter
    /\ IdleEntry
    /\ IdleAnalyze
    /\ IdleRerun
NextComment == RemoveComments
SpecComment == InitComment /\ [][NextComment]_vars

InitResolve == StartResolve /\ IdleMetric /\ IdleComment /\ IdleParse /\ IdlePaper /\ IdleDownload
    /\ IdleScan
    /\ IdleFilter
    /\ IdleEntry
    /\ IdleAnalyze
    /\ IdleRerun
NextResolve ==
    \/ CopyText
    \/ InputNotFound
    \/ InputUnreadable
    \/ EnterInput
    \/ ReturnInput
    \/ FinishResolve
SpecResolve == InitResolve /\ [][NextResolve]_vars

InitParse == StartParse /\ IdleMetric /\ IdleComment /\ IdleResolve /\ IdlePaper /\ IdleDownload
    /\ IdleScan
    /\ IdleFilter
    /\ IdleEntry
    /\ IdleAnalyze
    /\ IdleRerun
NextParse == Parse
SpecParse == InitParse /\ [][NextParse]_vars

InitPaper == StartPaper /\ IdleMetric /\ IdleComment /\ IdleResolve /\ IdleParse /\ IdleDownload
    /\ IdleScan
    /\ IdleFilter
    /\ IdleEntry
    /\ IdleAnalyze
    /\ IdleRerun
NextPaper == GetRelevantSections \/ GetTextForLlm \/ SaveToJson \/ FromJson
SpecPaper == InitPaper /\ [][NextPaper]_vars

InitDownload ==
    StartDownload /\ IdleMetric /\ IdleComment /\ IdleResolve /\ IdleParse /\ IdlePaper
    /\ IdleScan
    /\ IdleFilter
    /\ IdleEntry
    /\ IdleAnalyze
    /\ IdleRerun
NextDownload ==
    \/ StartRun
    \/ NoIdCandidate
    \/ SkipFailed
    \/ LoadCheckpoint
    \/ CheckpointUnreadable
    \/ FetchPaper
    \/ SaveRaises
    \/ FetchNothing
    \/ FetchRaises
    \/ WriteFailed
SpecDownload == InitDownload /\ [][NextDownload]_vars

InitScan ==
    StartScan /\ IdleMetric /\ IdleComment /\ IdleResolve /\ IdleParse /\ IdlePaper
    /\ IdleDownload
    /\ IdleFilter
    /\ IdleEntry
    /\ IdleAnalyze
    /\ IdleRerun
NextScan == DataFileMissing \/ ScanBreak \/ ScanRecord \/ ScanExhausted
SpecScan == InitScan /\ [][NextScan]_vars

InitFilter ==
    StartFilter /\ IdleMetric /\ IdleComment /\ IdleResolve /\ IdleParse /\ IdlePaper
    /\ IdleDownload /\ IdleScan
    /\ IdleEntry
    /\ IdleAnalyze
    /\ IdleRerun
NextFilter == FilterPapers
SpecFilter == InitFilter /\ [][NextFilter]_vars

InitEntry ==
    StartEntry /\ IdleMetric /\ IdleComment /\ IdleResolve /\ IdleParse /\ IdlePaper
    /\ IdleDownload /\ IdleScan /\ IdleFilter
    /\ IdleAnalyze
    /\ IdleRerun
NextEntry == ConstructEntry
SpecEntry == InitEntry /\ [][NextEntry]_vars

InitAnalyze ==
    StartAnalyze /\ IdleMetric /\ IdleComment /\ IdleResolve /\ IdleParse /\ IdlePaper
    /\ IdleDownload /\ IdleScan /\ IdleFilter /\ IdleEntry
    /\ IdleRerun
NextAnalyze ==
    \/ ClientInitFails
    \/ StartAnalysis
    \/ EntryReturned
    \/ NoEntryReturned
    \/ WriteLeaderboard
SpecAnalyze == InitAnalyze /\ [][NextAnalyze]_vars

InitUpload ==
    StartUpload /\ IdleMetric /\ IdleComment /\ IdleResolve /\ IdleParse /\ IdlePaper
    /\ IdleScan /\ IdleFilter /\ IdleEntry /\ IdleAnalyze /\ IdleRerun
SpecUpload == InitUpload /\ [][NextDownload]_vars

InitRerun ==
    StartRerun /\ IdleMetric /\ IdleComment /\ IdleResolve /\ IdleParse /\ IdlePaper
    /\ IdleScan /\ IdleFilter /\ IdleEntry /\ IdleAnalyze
NextRerun ==
    \/ StartRun
    \/ NoIdCandidate
    \/ SkipFailed
    \/ LoadCheckpoint
    \/ CheckpointUnreadable
    \/ FetchPaper
    \/ SaveRaises
    \/ FetchNothing
    \/ FetchRaises
    \/ WriteFailed
    \/ RunAgain
SpecRerun == InitRerun /\ [][NextRerun]_vars

(***************************************************************************)
(* Claims about _remove_latex_comments                                     *)
(***************************************************************************)
\* index of the first '%' of line at or after i not preceded by a backslash, 0 if none
RECURSIVE FirstUnescapedPercent(_, _)
FirstUnescapedPercent(line, i) ==
    IF i > Len(line) THEN 0
    ELSE IF At(line, i) = "%" /\ (i = 1 \/ At(line, i - 1) # "\\") THEN i
    ELSE FirstUnescapedPercent(line, i + 1)

TruncatedAtComment(line) ==
    LET p == FirstUnescapedPercent(line, 1)
    IN  IF p = 0 THEN line ELSE Slice(line, 1, p - 1)

\* C10: every line is returned cut at its first unescaped '%' (also when an
\* escaped '\%' comes earlier on the line), a line without one is returned
\* unchanged, and the number of lines is preserved.
C10_CutAtFirstUnescapedPercent ==
    comment_pc = "done" =>
        LET inLines == SplitOn(comment_text, "\n")
            outLines == SplitOn(comment_out, "\n")
        IN  /\ Len(outLines) = Len(inLines)
            /\ \A i \in 1..Len(inLines) : outLines[i] = TruncatedAtComment(inLines[i])

\* C11: the comment stripper is idempotent: stripping its own output gives
\* that output again
C11_StripIdempotent ==
    comment_pc = "done" => remove_latex_comments(comment_out) = comment_out

\* a stripped text of two lines: one lost its comment, the other kept an
\* escaped percent sign
C11_Witness ==
    /\ comment_pc = "done"
    /\ comment_out # comment_text
    /\ FindChar(comment_out, "%", 1) # 0
    /\ FindChar(comment_out, "\n", 1) # 0

(***************************************************************************)
(* Claims about _resolve_latex_inputs                                      *)
(***************************************************************************)
\* C7: a file that \input's itself, directly or transitively, is detected:
\* no file is entered while a call on it is still in progress, so the
\* nesting is bounded by the number of files and the resolution terminates.
C7_NoFileEnteredTwice ==
    \A i, j \in 1..Len(res_stack) :
        i # j => res_stack[i].path # res_stack[j].path

\* the directory of the file a call works on
DirOf(path) == path.dir

\* the command whose file call k + 1 of the stack resolves
CallingCommand(k) == res_stack[k].text[res_stack[k].pos]

\* the path the claim C8 names: the name as given first, name.tex second,
\* both relative to the directory dir of the including file
AsGivenFirst(cmd, dir) ==
    LET name == filename(cmd)
    IN  IF Exists(JoinPath(dir, name)) \/ EndsWithTex(name) THEN JoinPath(dir, name)
        ELSE JoinPath(dir, WithTex(name))

\* C8 as stated: the file inlined for a command is the name as given when it
\* exists, name.tex otherwise, looked up in the directory of the file that
\* holds the command.
C8_AsGivenFirstInIncludersDir ==
    \A k \in 1..(Len(res_stack) - 1) :
        res_stack[k + 1].path = AsGivenFirst(CallingCommand(k), DirOf(res_stack[k].path))

\* the two halves of C8 as stated, each alone
C8_AsGivenFirst ==
    \A k \in 1..(Len(res_stack) - 1) :
        res_stack[k + 1].path = AsGivenFirst(CallingCommand(k), base_dir)

C8_InIncludersDir ==
    \A k \in 1..(Len(res_stack) - 1) :
        DirOf(res_stack[k + 1].path) =
            DirOf(res_stack[k].path) \o CallingCommand(k).dir

\* the paths a command can stand for below the one base directory
Candidates(cmd) ==
    {JoinPath(base_dir, filename(cmd))}
        \cup (IF EndsWithTex(filename(cmd)) THEN {}
              ELSE {JoinPath(base_dir, WithTex(filename(cmd)))})

\* C8, amended: name.tex is tried first when the name lacks the suffix and the
\* name as given second (name.tex wins when both exist), always below the base
\* directory of the outermost call, also for commands of included files; a
\* command stays in the output only if no candidate exists or the chosen file
\* cannot be read.
C8_TexFirstInBaseDir ==
    /\ \A k \in 1..(Len(res_stack) - 1) :
          LET cmd == CallingCommand(k)
              entered == res_stack[k + 1].path
          IN  /\ entered \in Candidates(cmd)
              /\ Exists(entered)
              /\ \A p \in Candidates(cmd) : Exists(p) => p.ext <= entered.ext
    /\ res_pc = "done" =>
          \A i \in 1..Len(resolved_text) :
              resolved_text[i].kind = "input" =>
                  \/ \A p \in Candidates(resolved_text[i]) : ~Exists(p)
                  \/ \E p \in Candidates(resolved_text[i]) :
                        /\ Exists(p)
                        /\ ~files[p].readable
                        /\ \A q \in Candidates(resolved_text[i]) : Exists(q) => q.ext <= p.ext

\* a and a.tex both exist and \input{a} of the main file was replaced by
\* a.tex; sub/b.tex exists and the \input{b} of sub/c.tex entered the top b.tex
C8_Witness ==
    /\ Len(res_stack) = 3
    /\ Exists(PathA) /\ Exists(PathATex) /\ Exists(PathSubBTex)
    /\ res_stack[1].text = <<InputA, InputSubC>>
    /\ res_stack[1].pos = 2
    /\ res_stack[1].out[1] = Chunk("a.tex")
    /\ res_stack[2].path = PathSubCTex
    /\ res_stack[3].path = PathBTex

\* what the claim C9 expects of a text: chunks and the commands whose file is
\* not found or not readable stay as they are, every other command is
\* replaced by the expected text of its file
RECURSIVE ExpectedText(_, _)
ExpectedText(text, fuel) ==
    IF Len(text) = 0 THEN <<>>
    ELSE LET tok == Head(text)
             found == tok.kind = "input" /\ (\E p \in Candidates(tok) : Exists(p))
             usable == found /\ files[tex_path(tok)].readable
         IN  (IF usable /\ fuel > 0
              THEN ExpectedText(files[tex_path(tok)].text, fuel - 1)
              ELSE <<tok>>)
             \o ExpectedText(Tail(text), fuel)

\* C9: a command whose file cannot be found stays in the output as it was,
\* and every other command that can be resolved is replaced by the resolved
\* contents of its file.
C9_MissingKeptOthersResolved ==
    res_pc = "done" =>
        resolved_text = ExpectedText(res_stack[1].text, MaxDepth)

\* a finished call whose text held a command without a file, kept in the
\* output, and a command whose file held a further command, both replaced
C9_Witness ==
    /\ res_pc = "done"
    /\ \E i \in 1..Len(res_stack[1].text) :
          /\ res_stack[1].text[i].kind = "input"
          /\ \A p \in Candidates(res_stack[1].text[i]) : ~Exists(p)
          /\ \E j \in 1..Len(resolved_text) : resolved_text[j] = res_stack[1].text[i]
    /\ \E i \in 1..Len(res_stack[1].text) :
          /\ res_stack[1].text[i] = InputSubC
          /\ Exists(PathSubCTex)
          /\ files[PathSubCTex].text = <<Chunk("sub/c.tex"), InputB>>
          /\ Exists(PathBTex)
          /\ files[PathBTex].readable
    /\ \E j \in 1..Len(resolved_text) : resolved_text[j] = Chunk("b.tex")
    /\ \A j \in 1..Len(resolved_text) : resolved_text[j] # InputSubC

(***************************************************************************)
(* Claims about ArxivPaper.parse.                                          *)
(***************************************************************************)
\* what parse works on: the text without comments, its heading matches, its
\* abstract block, and the cleaned title and content of each heading match
ParsedText == remove_latex_comments(latex_text)
ParsedMatches == SectionMatches(ParsedText, 1)
ParsedAbstract == extract_abstract(ParsedText)
ParsedCandidates ==
    [i \in 1..Len(ParsedMatches) |-> HeadingCandidate(ParsedText, ParsedMatches, i)]

\* the characters of s that are no whitespace
NonSpaceCount(s) == Cardinality({k \in 1..Len(s) : At(s, k) \notin Whitespace})

\* the characters of s between its first and its last that are no whitespace
TrimmedLen(s) ==
    LET inner == {k \in 1..Len(s) : At(s, k) \notin Whitespace}
    IN  IF inner = {} THEN 0
        ELSE (CHOOSE k \in inner : \A m \in inner : m <= k)
                 - (CHOOSE k \in inner : \A m \in inner : k <= m) + 1

IsDelimiter(c) == c \in {".", "!", "?"}

\* content has a sentence, a longest run without '.', '!', '?', of more than
\* 20 characters: those that are no whitespace if nonspace, else those left
\* by trimming
HasLongSentence(content, nonspace) ==
    \E a \in 1..Len(content) :
        /\ a = 1 \/ IsDelimiter(At(content, a - 1))
        /\ \E b \in a..Len(content) :
              /\ b = Len(content) \/ IsDelimiter(At(content, b + 1))
              /\ \A m \in a..b : ~IsDelimiter(At(content, m))
              /\ (IF nonspace THEN NonSpaceCount(Slice(content, a, b))
                               ELSE TrimmedLen(Slice(content, a, b))) > 20

\* at least 50 characters and a sentence of more than 20 characters that are
\* no whitespace
ContentValidNonSpace(content) ==
    Len(content) >= 50 /\ HasLongSentence(content, TRUE)

\* at least 50 characters and a sentence of more than 20 characters once the
\* whitespace around it is trimmed
ContentValidTrimmed(content) ==
    Len(content) >= 50 /\ HasLongSentence(content, FALSE)

\* sections ends with one section, of that title and content, for each
\* heading candidate of kept, in their order; before them stands at most the
\* section of the abstract block
HeadingSectionsAre(kept) ==
    LET lead == Len(sections) - Len(kept)
    IN  /\ lead \in {0, 1}
        /\ lead = 1 => /\ ParsedAbstract.found
                       /\ sections[1].title = "Abstract"
                       /\ sections[1].content = ParsedAbstract.content
        /\ \A k \in 1..Len(kept) :
              /\ sections[lead + k].title = kept[k].title
              /\ sections[lead + k].content = kept[k].content

\* C3: after parse, the section at index i (from 0) has order i: the orders
\* start at 0 and are contiguous, a rejected heading candidate takes none
C3_OrderIsIndex ==
    parse_pc = "done" => \A k \in 1..Len(sections) : sections[k].order = k - 1

\* a parsed document with an abstract section, a heading candidate that is
\* rejected and a later one that is accepted
C3_Witness ==
    /\ parse_pc = "done"
    /\ ParsedAbstract.found
    /\ Len(sections) >= 2
    /\ \E i, j \in 1..Len(ParsedCandidates) :
          /\ i < j
          /\ ~is_valid_section_title(ParsedCandidates[i].title)
                \/ ~ContentValidTrimmed(ParsedCandidates[i].content)
          /\ is_valid_section_title(ParsedCandidates[j].title)
          /\ ContentValidTrimmed(ParsedCandidates[j].content)
          /\ sections[Len(sections)].title = ParsedCandidates[j].title

\* C4: a document with an abstract block whose cleaned content has at least
\* 50 characters gets exactly one section titled "Abstract", and it has
\* order 0, whatever headings the document holds
C4_ExactlyOneAbstract ==
    (/\ parse_pc = "done"
     /\ ParsedAbstract.found
     /\ Len(ParsedAbstract.content) >= 50)
    => /\ Cardinality({k \in 1..Len(sections) : sections[k].title = "Abstract"}) = 1
       /\ \A k \in 1..Len(sections) :
             sections[k].title = "Abstract" => sections[k].order = 0

\* C5, as claimed: a heading of a valid title gets a section exactly when its
\* cleaned content has at least 50 characters and a sentence with more than
\* 20 characters that are no whitespace
C5_SectionIffNonSpaceSentence ==
    parse_pc = "done" =>
        HeadingSectionsAre(SelectSeq(ParsedCandidates,
            LAMBDA c : is_valid_section_title(c.title) /\ ContentValidNonSpace(c.content)))

\* C5, amended: a heading of a valid title gets a section exactly when its
\* cleaned content has at least 50 characters and a sentence of more than 20
\* characters, inner whitespace counted, once the whitespace around the
\* sentence is trimmed
C5_SectionIffTrimmedSentence ==
    parse_pc = "done" =>
        HeadingSectionsAre(SelectSeq(ParsedCandidates,
            LAMBDA c : is_valid_section_title(c.title) /\ ContentValidTrimmed(c.content)))

\* a parsed document with two headings of valid titles: one accepted whose
\* long sentence has no more than 20 characters that are no whitespace, one
\* rejected though its content has 50 characters
C5_Witness ==
    /\ parse_pc = "done"
    /\ \E i, j \in 1..Len(ParsedMatches) :
          LET accepted == HeadingCandidate(ParsedText, ParsedMatches, i)
              rejected == HeadingCandidate(ParsedText, ParsedMatches, j)
          IN  /\ Len(accepted.content) >= 50
              /\ Len(rejected.content) >= 50
              /\ is_valid_section_title(accepted.title)
              /\ ContentValidTrimmed(accepted.content)
              /\ ~ContentValidNonSpace(accepted.content)
              /\ \E k \in 1..Len(sections) : sections[k].content = accepted.content
              /\ is_valid_section_title(rejected.title)
              /\ ~ContentValidTrimmed(rejected.content)

\* C6: an abstract block whose cleaned content fails the validity check of
\* sections yields no Abstract section: the sections are those of the
\* headings, the first of them with order 0
C6_AbstractOnlyWhenValid ==
    (/\ parse_pc = "done"
     /\ ParsedAbstract.found
     /\ ~ContentValidTrimmed(ParsedAbstract.content))
    => /\ \A k \in 1..Len(sections) :
             ~(sections[k].title = "Abstract"
               /\ sections[k].content = ParsedAbstract.content)
       /\ sections # <<>> =>
             /\ sections[1].order = 0
             /\ \E i \in 1..Len(ParsedCandidates) :
                   /\ sections[1].title = ParsedCandidates[i].title
                   /\ sections[1].content = ParsedCandidates[i].content

\* where the third-level headings \subsubsection{...} of the parsed text start
DeepHeadingStarts ==
    {p \in 1..Len(ParsedText) :
        HasAt(ParsedText, "\\subsubsection{", p) /\ FindChar(ParsedText, "}", p) # 0}

\* the title of the third-level heading at p
DeepHeadingTitle(p) == Slice(ParsedText, p + 15, FindChar(ParsedText, "}", p) - 1)

\* C22: a \subsubsection{...} command is no heading: no heading match starts
\* at it, so it ends no content span, and no section has its title
C22_NoDeeperHeadings ==
    parse_pc = "done" =>
        \A p \in DeepHeadingStarts :
            /\ \A i \in 1..Len(ParsedMatches) : ParsedMatches[i].start # p
            /\ \A k \in 1..Len(sections) : sections[k].title # DeepHeadingTitle(p)

\* C23: the title of a section has no brace and no backslash left: formatting
\* commands around it or around a part of it are unwrapped, also when nested
C23_TitleUnwrapped ==
    parse_pc = "done" =>
        \A k \in 1..Len(sections) :
            /\ FindChar(sections[k].title, "{", 1) = 0
            /\ FindChar(sections[k].title, "}", 1) = 0
            /\ FindChar(sections[k].title, "\\", 1) = 0

\* the text between heading match i and the next one, trimmed
RawSpan(i) ==
    Strip(Slice(ParsedText, ParsedMatches[i].end,
                (IF i < Len(ParsedMatches) THEN ParsedMatches[i + 1].start
                 ELSE Len(ParsedText) + 1) - 1))

\* C24: the cleaned content of a section has no whitespace at its ends, and
\* where the text between the headings holds a run of three or more newlines
\* inside it, the content holds a break of two newlines
C24_ParagraphBreakKept ==
    parse_pc = "done" =>
        \A i \in 1..Len(ParsedMatches) :
            LET content == HeadingCandidate(ParsedText, ParsedMatches, i).content
            IN  /\ content # "" =>
                      /\ At(content, 1) \notin Whitespace
                      /\ At(content, Len(content)) \notin Whitespace
                /\ Find(RawSpan(i), "\n\n\n", 1) # 0 => Find(content, "\n\n", 1) # 0

(***************************************************************************)
(* Claims about the methods of a parsed ArxivPaper.                        *)
(***************************************************************************)
\* term occurs in text at some index
OccursIn(term, text) ==
    \E i \in 1..(Len(text) + 1) :
        i + Len(term) - 1 <= Len(text) /\ Slice(text, i, i + Len(term) - 1) = term

\* the exclusion terms in force for an argument: the default ones when no
\* list is passed, else the terms of the list, lower-cased
ActiveTerms(exclude_list) ==
    IF exclude_list.given
    THEN {ToLower(exclude_list.list[i]) : i \in 1..Len(exclude_list.list)}
    ELSE {"references", "bibliography", "appendix", "supplementary",
          "acknowledgments", "acknowledgements", "author contributions",
          "funding", "ethics statement", "checklist", "supplementary material"}

\* the sections of paper whose lower-cased title holds none of terms
Retained(terms) ==
    SelectSeq(paper.sections,
              LAMBDA s : \A t \in terms : ~OccursIn(t, ToLower(s.title)))

\* C12: get_relevant_sections returns, in their order and unchanged, exactly
\* the sections whose lower-cased title holds no active exclusion term; by
\* default "References" is excluded and "Related Work" retained; a list that
\* is passed replaces the default terms, and an empty list excludes nothing
C12_RelevantSections ==
    call.op = "get_relevant_sections" =>
        /\ call.result = Retained(ActiveTerms(call.exclude_list))
        /\ ~call.exclude_list.given =>
              \A k \in 1..Len(paper.sections) :
                  /\ paper.sections[k].title = "References" =>
                        \A j \in 1..Len(call.result) : call.result[j] # paper.sections[k]
                  /\ paper.sections[k].title = "Related Work" =>
                        \E j \in 1..Len(call.result) : call.result[j] = paper.sections[k]
        /\ call.exclude_list = List(<<>>) => call.result = paper.sections

\* a call with a list of its own on a paper with a "References" section and
\* a section the list excludes: the first is returned, the second is not
C12_Witness ==
    /\ call.op = "get_relevant_sections"
    /\ call.exclude_list = List(<<"WORK", "intro">>)
    /\ Len(paper.sections) = 2
    /\ paper.sections[1].title = "Related Work"
    /\ paper.sections[2].title = "References"
    /\ call.result = <<paper.sections[2]>>

\* the text get_text_for_llm assembles before it truncates: the abstract of
\* the metadata if asked for and present, then title, newline, content and
\* a blank line for every section the default terms retain
RECURSIVE Assembled(_, _)
Assembled(include_abstract, k) ==
    IF k = 0
    THEN (IF include_abstract /\ "abstract" \in DOMAIN paper.metadata
          THEN "Abstract:\n" \o paper.metadata.abstract \o "\n\n" ELSE "")
    ELSE Assembled(include_abstract, k - 1)
             \o Retained(ActiveTerms(NoList))[k].title \o "\n"
             \o Retained(ActiveTerms(NoList))[k].content \o "\n\n"

AssembledText(include_abstract) ==
    Assembled(include_abstract, Len(Retained(ActiveTerms(NoList))))

\* C13: when max_chars is given, 0 included, and the assembled text is
\* longer, the result is its first max_chars characters and the marker, 21
\* characters more; otherwise the result is the assembled text
C13_TruncatedToMaxChars ==
    call.op = "get_text_for_llm" =>
        LET full == AssembledText(call.include_abstract)
        IN  IF call.max_chars.given /\ Len(full) > call.max_chars.n
            THEN /\ call.result = Slice(full, 1, call.max_chars.n) \o "\n\n[Text truncated...]"
                 /\ Len(call.result) = call.max_chars.n + 21
            ELSE call.result = full

\* C14: without truncation the result is the assembled text; the content of
\* a "References" section is not in it, and without include_abstract the
\* abstract of the metadata is not in it
C14_AssembledText ==
    (/\ call.op = "get_text_for_llm"
     /\ ~call.max_chars.given)
    => /\ call.result = AssembledText(call.include_abstract)
       /\ ~OccursIn(ContentOf("References"), call.result)
       /\ (~call.include_abstract /\ "abstract" \in DOMAIN paper.metadata)
             => ~OccursIn(paper.metadata.abstract, call.result)

\* a call without max_chars and without include_abstract on a paper whose
\* metadata has an abstract, with a "References" section before a retained one
C14_Witness ==
    /\ call.op = "get_text_for_llm"
    /\ ~call.max_chars.given
    /\ ~call.include_abstract
    /\ "abstract" \in DOMAIN paper.metadata
    /\ Len(paper.sections) = 2
    /\ paper.sections[1].title = "References"
    /\ paper.sections[2].title = "Experiments"
    /\ OccursIn(ContentOf("Experiments"), call.result)

\* C15: the paper from_json loads from the file save_to_json wrote has the
\* arxiv_id, the sections (titles, contents, orders, in sequence), the
\* parsed_date, the source_path and the metadata of the paper saved
C15_JsonRoundTrip ==
    call.op = "from_json" =>
        /\ call.result.arxiv_id = paper.arxiv_id
        /\ call.result.sections = paper.sections
        /\ call.result.parsed_date = paper.parsed_date
        /\ call.result.source_path = paper.source_path
        /\ call.result.metadata = paper.metadata

\* a paper loaded back that has a source path of several parts, two
\* sections, and an abstract with quotes and a backslash in its metadata
C15_Witness ==
    /\ call.op = "from_json"
    /\ paper.source_path.given
    /\ Len(paper.source_path.parts) = 3
    /\ Len(call.result.sections) = 2
    /\ "abstract" \in DOMAIN paper.metadata
    /\ json_file.metadata.abstract.text # paper.metadata.abstract
    /\ json_file.source_path.text = "sources/2301.12345/main.tex"

(***************************************************************************)
(* Claims about download_arxiv_papers.                                     *)
(***************************************************************************)
\* the outcomes of a candidate for which fetch_paper_from_arxiv was called,
\* and those that are a failure
FetchOutcomes == {"fetched", "save_raised", "fetched_nothing", "fetch_raised"}
FailureOutcomes == {"save_raised", "fetched_nothing", "fetch_raised", "load_raised"}

\* the candidates taken so far with an outcome of the set outcomes
HandledWith(outcomes) == {k \in 1..Len(handled) : handled[k].outcome \in outcomes}

\* the run is over: the function returned or an exception left it
Ended == dl_pc \in {"done", "raised"}

StrictlySorted(l) == \A i, j \in 1..Len(l) : i < j => l[i] < l[j]

\* C17: no identifier of the failed-downloads file at the start of the run
\* is fetched; the file written when the run returns is sorted and holds the
\* identifiers it had at the start and those whose fetch returned nothing or
\* raised; no step removes an identifier from the file
C17_FailedDownloadsKept ==
    /\ [](/\ \A k \in HandledWith(FetchOutcomes) : handled[k].id \notin failed_at_start
          /\ dl_pc = "done" =>
                /\ failed_file.exists
                /\ StrictlySorted(failed_file.ids)
                /\ failed_at_start \subseteq SetOf(failed_file.ids)
                /\ \A k \in HandledWith({"fetched_nothing", "fetch_raised"}) :
                      handled[k].id \in SetOf(failed_file.ids))
    /\ [][SetOf(failed_file.ids) \subseteq SetOf(failed_file'.ids)]_vars

\* a run that returned: it skipped a candidate of the file it started with,
\* a fetch returned nothing for another, and the file holds both
C17_Witness ==
    /\ dl_pc = "done"
    /\ failed_at_start = {2}
    /\ \E k \in HandledWith({"skipped"}) : handled[k].id = 2
    /\ \E k \in HandledWith({"fetched_nothing"}) : handled[k].id = 1
    /\ failed_file = FailedFile(<<1, 2>>)

\* C18: when the handling of a candidate fails (the fetch, the save of the
\* checkpoint, or the load of an existing checkpoint) and the run is over,
\* every candidate to process was taken, the function returned, and the
\* failed-downloads file was written with the failed downloads
C18_FailureOfOneCandidateOnly ==
    (/\ Ended
     /\ parsed_dir
     /\ HandledWith(FailureOutcomes) # {})
    => /\ dl_pc = "done"
       /\ Len(handled) = Len(ToProcess)
       /\ failed_file = FailedFile(Sorted(failed_downloads))

\* C19: with a limit other than -1 no more candidates than the limit are
\* taken, so no more fetches are made; with -1 a run that is over took every
\* candidate and fetched exactly those with an id that were neither failed
\* nor checkpointed; with no candidates the run returns an empty list
C19_FetchCallsWithinLimit ==
    /\ max_download_calls # -1 =>
          /\ Len(handled) <= max_download_calls
          /\ Cardinality(HandledWith(FetchOutcomes)) <= max_download_calls
    /\ (max_download_calls = -1 /\ Ended) =>
          /\ Len(handled) = Len(candidates)
          /\ \A k \in 1..Len(handled) :
                handled[k].outcome \in FetchOutcomes
                    <=> (/\ handled[k].id # NoId
                         /\ ~handled[k].was_failed
                         /\ ~handled[k].was_checkpointed)
    /\ (candidates = <<>> /\ Ended) => (dl_pc = "done" /\ pdf_papers = <<>>)

\* C26: the loop sleeps after every candidate for which the fetch was called,
\* whether the fetch returned a paper, returned nothing or raised, and so
\* between any two successive fetches; it does not sleep after a candidate
\* skipped as previously failed or loaded from its checkpoint
C26_SleepAfterEveryFetch ==
    /\ \A k \in HandledWith(FetchOutcomes) : handled[k].slept
    /\ \A k \in HandledWith({"skipped", "loaded"}) : ~handled[k].slept
    /\ \A i, j \in HandledWith(FetchOutcomes) :
          i < j => \E k \in i..(j - 1) : handled[k].slept

\* a run that returned: it skipped a candidate without a sleep, fetched the
\* next and slept, and loaded the checkpoint of the third without a sleep
C26_Witness ==
    /\ dl_pc = "done"
    /\ Len(handled) = 3
    /\ handled[1].outcome = "skipped" /\ ~handled[1].slept
    /\ handled[2].outcome = "fetched" /\ handled[2].slept
    /\ handled[3].outcome = "loaded" /\ ~handled[3].slept

\* C30: when the run returned, every candidate to process that has an id is
\* accounted for once: its id is the id of a returned paper or a member of
\* failed_downloads and not both, also when candidates share an id, and the
\* returned papers are, in the order of the candidates, those of the
\* candidates whose id is not a failed download
C30_AccountedExactlyOnce ==
    dl_pc = "done" =>
        /\ \A id \in SetOf(ToProcess) \ {NoId} :
              (id \in SetOf(pdf_papers)) # (id \in failed_downloads)
        /\ pdf_papers = SelectSeq(ToProcess,
                                  LAMBDA id : id # NoId /\ id \notin failed_downloads)

\* C28: every paper of the list pdf_papers has a path to upload, the one
\* get_pdf_path_for_upload returns, also a paper loaded from its checkpoint
\* when save_files is false
C28_ReturnedPapersUploadable ==
    \A k \in 1..Len(paper_paths) : get_pdf_path_for_upload(paper_paths[k]).given

\* C27: with save_parsed_papers true, over the batch runs against the same
\* storage no identifier is fetched twice: a paper that was fetched and
\* saved has a checkpoint from then on, an identifier whose fetch or save
\* failed is in the failed downloads of its run and, once the run returned,
\* in the failed-downloads file
C27_FetchedAtMostOnce ==
    /\ \A i, j \in HandledWith(FetchOutcomes) : handled[i].id = handled[j].id => i = j
    /\ \A k \in HandledWith({"fetched"}) : checkpoints[handled[k].id] = "good"
    /\ \A k \in HandledWith({"save_raised", "fetched_nothing", "fetch_raised"}) :
          handled[k].id \in failed_downloads \cup SetOf(failed_file.ids)

\* the second run returned: the first fetched one paper and failed to fetch
\* another, the second loaded the one and skipped the other
C27_Witness ==
    /\ run = 2
    /\ dl_pc = "done"
    /\ Len(handled) = 4
    /\ handled[1].outcome = "fetched" /\ handled[2].outcome = "fetched_nothing"
    /\ handled[3].outcome = "loaded" /\ handled[3].id = handled[1].id
    /\ handled[4].outcome = "skipped" /\ handled[4].id = handled[2].id

(***************************************************************************)
(* Claims about scan_arxiv_metadata.                                       *)
(***************************************************************************)
\* the scan is over and there was a stream to scan
ScanOver == scan_pc \in {"returned", "exit0"}

\* the records the limit lets the scan examine
ScanWindow ==
    IF max_metadata_scan_limit = -1 \/ max_metadata_scan_limit >= Len(stream)
    THEN stream
    ELSE SubSeq(stream, 1, max_metadata_scan_limit)

\* the records of a list that pass the filter, in the order of the list
Passing(records) == SelectSeq(records, LAMBDA r : filter_arxiv_metadata(r, ScanConfig))

\* the records examined so far are the first records of the stream; with a
\* limit other than -1 they and the candidates are no more than the limit
ExaminedWithinLimit ==
    /\ Len(examined) <= Len(stream)
    /\ examined = SubSeq(stream, 1, Len(examined))
    /\ scanned_count = Len(examined)
    /\ scan_candidates = Passing(examined)
    /\ max_metadata_scan_limit # -1 =>
          /\ Len(examined) <= max_metadata_scan_limit
          /\ Len(scan_candidates) <= max_metadata_scan_limit

\* C20 as stated: with a limit other than -1 no more records than the limit
\* are examined, and the candidates are records of the first limit records,
\* in stream order; with -1 every record is examined and the scan returns
\* exactly the records that pass the filter
C20_ScanReturnsPassing ==
    /\ ExaminedWithinLimit
    /\ (max_metadata_scan_limit = -1 /\ ScanOver) =>
          /\ examined = stream
          /\ scan_pc = "returned"
          /\ scan_candidates = Passing(stream)

\* C20, amended: a scan that is over examined exactly the records the limit
\* lets it examine, every record with -1; when one of them passes the filter
\* it returns those that pass, in stream order, and when none passes it does
\* not return: the process exits with status 0
C20_ScanReturnsPassingOrExits ==
    /\ ExaminedWithinLimit
    /\ ScanOver =>
          /\ examined = ScanWindow
          /\ scan_candidates = Passing(ScanWindow)
          /\ scan_pc = IF Passing(ScanWindow) = <<>> THEN "exit0" ELSE "returned"

\* a scan with limit 2 that returned: of three records the first passes, the
\* second does not, and the third would pass but is never examined
C20_Witness ==
    /\ scan_pc = "returned"
    /\ max_metadata_scan_limit = 2
    /\ Len(stream) = 3
    /\ Passing(stream) = <<stream[1], stream[3]>>
    /\ scan_candidates = <<stream[1]>>
    /\ Len(examined) = 2

(***************************************************************************)
(* Claims about filter_papers.                                             *)
(***************************************************************************)
\* the text of a paper holds the keyword, letter case set aside
HoldsKeyword(p, kw) ==
    LET t == IF p.raw_text.given THEN p.raw_text.text ELSE ""
    IN  \E i \in 0..Len(t) : i + Len(kw) <= Len(t) /\ ToLower(Slice(t, i + 1, i + Len(kw))) = ToLower(kw)

\* the papers filter_papers is to keep, in input order
Kept ==
    IF content_keywords = <<>> THEN parsed_papers
    ELSE SelectSeq(parsed_papers,
                   LAMBDA p : \E i \in 1..Len(content_keywords) : HoldsKeyword(p, content_keywords[i]))

\* C21: with keywords filter_papers returns the papers whose text holds one
\* of them, letter case set aside, in input order; without keywords it
\* returns every paper; when that list is empty it does not return, the
\* process exits
C21_FilterByKeywords ==
    filter_pc \in {"returned", "exit0"} =>
        IF Kept = <<>> THEN filter_pc = "exit0"
        ELSE filter_pc = "returned" /\ filtered_papers = Kept

\* three papers with the keyword in upper case: the first holds it in mixed
\* case and is returned, the second and the text-less third are not
C21_Witness ==
    /\ filter_pc = "returned"
    /\ content_keywords = <<"MACHINE LEARNING">>
    /\ Len(parsed_papers) = 3
    /\ parsed_papers[1].arxiv_id = "2101.00001"
    /\ ~parsed_papers[3].raw_text.given
    /\ filtered_papers = <<parsed_papers[1]>>

(***************************************************************************)
(* Claims about the construction of a SOTAEntry.                           *)
(***************************************************************************)
\* C25: in every variant a response without metric_value and a response
\* whose metric_value is null both give an entry, and its metric_value is
\* the sentinel -1.0: not None, and no validation failure
C25_MissingMetricIsSentinel ==
    (entry_pc = "done" /\ response.kind \in {"absent", "none"}) =>
        /\ entry.valid
        /\ entry.has_metric
        /\ entry.metric_value = Sentinel

(***************************************************************************)
(* Claims about analyze_papers.                                            *)
(***************************************************************************)
\* C29: no row of results and no row of the leaderboard has the sentinel
\* -1.0 as its Metric: an entry whose metric is not reported adds no row
C29_NoSentinelRows ==
    /\ \A k \in 1..Len(results) : results[k].Metric # Sentinel
    /\ \A k \in 1..Len(leaderboard) : leaderboard[k].Metric # Sentinel
====
